---- MODULE Spec2Model ----
(***************************************************************************)
(* Webhook catch-up engine of yougile-mcp (webhooks/consumer.py), the      *)
(* webhook receiver (webhooks/server.py) and the two stores they share:    *)
(* the event store (webhook_events) and the local mirror (localdb).        *)
(*                                                                         *)
(* The local mirror is the project's default PostgreSQL/asyncpg database   *)
(* (config/settings.py:28): foreign keys and NOT NULL are enforced at      *)
(* flush, and str(IntegrityError) carries the driver message, the SQL      *)
(* statement and its parameters.                                           *)
(***************************************************************************)
EXTENDS Integers, Sequences, FiniteSets, TLC

VARIABLES
    store,      \* webhook_events table (committed rows), indexed by id
    db,         \* local mirror (committed rows)
    api,        \* entity kinds the source API can return
    run,        \* the catch_up invocation in progress or just returned; its
                \* store0 (the table as selected from), follows, prev_since
                \* and last (the latest pass of the loop: what it did, the
                \* mirror before it) are history
    applied,    \* history: committed event upserts per event id (capped)
    hist,       \* history: what happened since the last run's selection
    up          \* the upsert primitives, the resolver and the client applied
                \* on their own: the clock, the latest application and what
                \* it left (UpsertSpec, ResolverSpec), the client call in
                \* hand (ClientSpec)

vars == <<store, db, api, run, applied, hist, up>>

----------------------------------------------------------------------------
(* Bounds of the exploration.                                              *)
MaxEvents == 2      \* rows the receiver appends
MaxCalls == 2       \* catch_up and process_single_event invocations

NULL == "NULL"      \* Python None in a string-valued position
NoTime == 0         \* Python None in a datetime-valued position
NoMs == -1          \* JSON null (or an absent key) where a state's begin/end
                    \* is read, kept apart from the number 0
Now == 1            \* datetime.utcnow() inside the event loop

----------------------------------------------------------------------------
(* Payloads.  An entity payload is a dict; a key that is absent reads as   *)
(* None through dict.get.  propTaskId and propActionBy are the keys taskId *)
(* and actionBy of the nested dict properties.                             *)
EmptyPayload ==
    [id |-> NULL, title |-> NULL, columnId |-> NULL, boardId |-> NULL,
     projectId |-> NULL, taskId |-> NULL, chatId |-> NULL, authorId |-> NULL,
     name |-> NULL, timestamp |-> NoTime, createdAt |-> NoTime,
     completedAt |-> NoTime, completedTimestamp |-> NoTime,
     archivedAt |-> NoTime, archivedTimestamp |-> NoTime,
     states |-> <<>>, actionBy |-> NULL, userId |-> NULL,
     propTaskId |-> NULL, propActionBy |-> NULL]

\* bool(entity_data): a dict is falsy exactly when it has no key
Truthy(p) == p # EmptyPayload

\* payload.get(k) or payload.get(k2)
Or2(a, b) == IF a # NULL THEN a ELSE b

\* the same for numeric values (an absent key and 0 are both falsy)
OrT(a, b) == IF a # NoTime THEN a ELSE b

\* event types are token sequences so that splitting on "-" is computed
Unknown == <<"unknown">>
TaskCreated == <<"task", "-", "created">>
TaskUpdated == <<"task", "-", "updated">>
ChatMessageCreated == <<"chat", "_", "message", "-", "created">>
GroupChatCreated == <<"group", "_", "chat", "-", "created">>

\* request bodies the source system posts: {"event": ..., "payload": ...}
Bodies ==
    { [event |-> TaskCreated, entityType |-> <<>>,
       payload |-> [EmptyPayload EXCEPT !.id = "t1", !.title = "A",
                                        !.columnId = "c1", !.timestamp = 1]],
      [event |-> TaskUpdated, entityType |-> <<>>,
       payload |-> [EmptyPayload EXCEPT !.id = "t1", !.title = "B"]],
      [event |-> TaskUpdated, entityType |-> <<>>,
       payload |-> [EmptyPayload EXCEPT !.title = "B"]],
      [event |-> TaskUpdated, entityType |-> <<>>,
       payload |-> EmptyPayload],
      [event |-> ChatMessageCreated, entityType |-> <<>>,
       payload |-> [EmptyPayload EXCEPT !.id = "m1", !.taskId = "t1",
                                        !.authorId = "u1",
                                        !.timestamp = 1000]],
      [event |-> GroupChatCreated, entityType |-> <<>>,
       payload |-> [EmptyPayload EXCEPT !.id = "x"]] }

\* what the source API holds for each kind (one entity per kind)
ApiData(kind) ==
    CASE kind = "project" -> [EmptyPayload EXCEPT !.id = "p1", !.title = "A"]
      [] kind = "board" -> [EmptyPayload EXCEPT !.id = "b1", !.title = "A",
                                                !.projectId = "p1"]
      [] kind = "column" -> [EmptyPayload EXCEPT !.id = "c1", !.title = "A",
                                                 !.boardId = "b1"]
      [] kind = "task" -> [EmptyPayload EXCEPT !.id = "t1", !.title = "A",
                                               !.columnId = "c1",
                                               !.timestamp = 1]
      [] kind = "user" -> [EmptyPayload EXCEPT !.id = "u1", !.name = "A"]
      [] kind = "sticker" ->
            [EmptyPayload EXCEPT !.id = "s1", !.name = "A",
                !.states = <<[id |-> "a", name |-> "A", begin |-> 5000,
                              end |-> 7000]>>]

FullApi == {"task", "column", "board", "project"}

\* the source API knows nothing, or the chain task -> column -> board ->
\* project without the comment's author
ApiConfigs == { {}, {"task", "column", "board", "project"} }

\* a source API that holds only part of the chain: a column whose board it
\* does not return, a board whose project it does not return
ChainApiConfigs ==
    ApiConfigs \cup { {"column"}, {"column", "board"}, {"task"} }

\* api_<kind>.get_<kind>(client, id): the entity, or nothing (not found, or
\* an error of the call, which the resolver's except branch turns into the
\* same return False)
ApiGet(a, kind, id) ==
    IF kind \in a /\ ApiData(kind).id = id THEN ApiData(kind) ELSE EmptyPayload

----------------------------------------------------------------------------
(* Local mirror.  Each table is a function from primary key to row.        *)
EmptyFn == [x \in {} |-> NULL]

EmptyDb ==
    [projects |-> EmptyFn, boards |-> EmptyFn, columns |-> EmptyFn,
     tasks |-> EmptyFn, users |-> EmptyFn, comments |-> EmptyFn,
     departments |-> EmptyFn,
     sprint_stickers |-> EmptyFn, sprint_states |-> EmptyFn,
     string_stickers |-> EmptyFn, string_states |-> EmptyFn]

Put(f, k, v) == (k :> v) @@ f

Has(f, k) == k \in DOMAIN f

(* Exceptions.  str(e) is what catch_up stores in event.error.  For an    *)
(* IntegrityError the text is the driver message followed by the SQL       *)
(* statement; mentions is the set of column names occurring in that text.  *)
NoExc == [cls |-> "none", msg |-> NULL, fk |-> FALSE, mentions |-> {}]

ValueError(kind) ==
    [cls |-> "ValueError", msg |-> kind \o " payload missing 'id' field",
     fk |-> FALSE, mentions |-> {}]

\* columns that INSERT INTO <table> (...) names
InsertCols(table) ==
    CASE table = "tasks" -> {"column_id"}
      [] table = "boards" -> {"project_id"}
      [] table = "columns" -> {"board_id"}
      [] table = "comments" -> {"task_id", "author_id"}
      [] OTHER -> {}

\* INSERT names every column; UPDATE ... SET names the changed ones
SqlCols(table, isInsert, changed) ==
    IF isInsert THEN InsertCols(table) ELSE changed \cap InsertCols(table)

ForeignKeyViolation(table, col, sqlCols) ==
    [cls |-> "IntegrityError",
     msg |-> "violates foreign key constraint " \o table \o "_" \o col \o "_fkey",
     fk |-> TRUE, mentions |-> sqlCols \cup {col}]

NotNullViolation(table, col, sqlCols) ==
    [cls |-> "IntegrityError",
     msg |-> "null value in column " \o col \o " violates not-null constraint",
     fk |-> FALSE, mentions |-> sqlCols \cup {col}]

\* a second row with a primary key the table already holds
UniqueViolation(table) ==
    [cls |-> "IntegrityError",
     msg |-> "duplicate key value violates unique constraint " \o table \o "_pkey",
     fk |-> FALSE, mentions |-> {}]

Raised(e) == e.cls # "none"

----------------------------------------------------------------------------
(* Entity upsert primitives.  Each returns [exc, db]: the exception raised *)
(* (NoExc if none) and the session's pending state after session.merge.    *)
\* the model counts time in units of 10^8 s: 10_000_000_000 is 100 units
MsThreshold == 100

to_dt(value) ==
    IF value = NoTime THEN NoTime
    ELSE IF value > MsThreshold THEN value \div 1000
    ELSE value

\* variant of the task upsert that lets every payload set the timestamps
upsert_task_Overwrites(payload, d) ==
    LET row == [title |-> IF payload.title = NULL THEN "" ELSE payload.title,
                column_id |-> payload.columnId,
                created_at |-> to_dt(OrT(payload.createdAt, payload.timestamp)),
                completed_at |-> to_dt(OrT(payload.completedAt,
                                          payload.completedTimestamp)),
                archived_at |-> to_dt(OrT(payload.archivedAt,
                                         payload.archivedTimestamp))]
    IN  IF payload.id = NULL THEN [exc |-> ValueError("Task"), db |-> d]
        ELSE [exc |-> NoExc,
              db |-> [d EXCEPT !.tasks = Put(d.tasks, payload.id, row)]]

\* session.merge copies the attributes the new object was given; a
\* timestamp left out of task_data keeps the stored value
upsert_task_from_payload(payload, d) ==
    LET task_id == payload.id
        existing == IF Has(d.tasks, task_id) THEN d.tasks[task_id]
                    ELSE [title |-> NULL, column_id |-> NULL,
                          created_at |-> NoTime, completed_at |-> NoTime,
                          archived_at |-> NoTime]
        created_dt == to_dt(OrT(payload.createdAt, payload.timestamp))
        completed_dt == to_dt(OrT(payload.completedAt,
                                  payload.completedTimestamp))
        archived_dt == to_dt(OrT(payload.archivedAt,
                                 payload.archivedTimestamp))
        row == [title |-> IF payload.title = NULL THEN "" ELSE payload.title,
                column_id |-> payload.columnId,
                created_at |->
                    IF created_dt # NoTime /\ existing.created_at = NoTime
                    THEN created_dt ELSE existing.created_at,
                completed_at |->
                    IF completed_dt # NoTime /\ existing.completed_at = NoTime
                    THEN completed_dt ELSE existing.completed_at,
                archived_at |->
                    IF archived_dt # NoTime /\ existing.archived_at = NoTime
                    THEN archived_dt ELSE existing.archived_at]
    IN  IF task_id = NULL THEN [exc |-> ValueError("Task"), db |-> d]
        ELSE [exc |-> NoExc,
              db |-> [d EXCEPT !.tasks = Put(d.tasks, task_id, row)]]

upsert_project_from_payload(payload, d) ==
    LET row == [title |-> IF payload.title = NULL THEN "" ELSE payload.title]
    IN  IF payload.id = NULL THEN [exc |-> ValueError("Project"), db |-> d]
        ELSE [exc |-> NoExc,
              db |-> [d EXCEPT !.projects = Put(d.projects, payload.id, row)]]

upsert_board_from_payload(payload, d) ==
    LET row == [title |-> IF payload.title = NULL THEN "" ELSE payload.title,
                project_id |-> payload.projectId]
    IN  IF payload.id = NULL THEN [exc |-> ValueError("Board"), db |-> d]
        ELSE [exc |-> NoExc,
              db |-> [d EXCEPT !.boards = Put(d.boards, payload.id, row)]]

upsert_column_from_payload(payload, d) ==
    LET row == [title |-> IF payload.title = NULL THEN "" ELSE payload.title,
                board_id |-> payload.boardId]
    IN  IF payload.id = NULL THEN [exc |-> ValueError("Column"), db |-> d]
        ELSE [exc |-> NoExc,
              db |-> [d EXCEPT !.columns = Put(d.columns, payload.id, row)]]

upsert_user_from_payload(payload, d) ==
    LET row == [name |-> payload.name]
    IN  IF payload.id = NULL THEN [exc |-> ValueError("User"), db |-> d]
        ELSE [exc |-> NoExc,
              db |-> [d EXCEPT !.users = Put(d.users, payload.id, row)]]

\* now is datetime.utcnow() at the call, used when the payload has no
\* timestamp; a payload timestamp is always read as milliseconds
upsert_comment_from_payload(payload, d, now) ==
    LET task_id == Or2(Or2(payload.chatId, payload.taskId), payload.propTaskId)
        author_id == Or2(Or2(Or2(payload.actionBy, payload.authorId),
                             payload.userId),
                         payload.propActionBy)
        row == [task_id |-> task_id, author_id |-> author_id,
                timestamp |-> IF payload.timestamp # NoTime
                              THEN payload.timestamp \div 1000 ELSE now]
    IN  IF payload.id = NULL THEN [exc |-> ValueError("Comment"), db |-> d]
        ELSE [exc |-> NoExc,
              db |-> [d EXCEPT !.comments = Put(d.comments, payload.id, row)]]

\* variant of the department upsert without the check of the id
upsert_department_NoIdCheck(payload, d) ==
    [exc |-> NoExc,
     db |-> [d EXCEPT !.departments =
                Put(d.departments, payload.id, [name |-> payload.name])]]

upsert_department_from_payload(payload, d) ==
    LET row == [name |-> payload.name]
    IN  IF payload.id = NULL THEN [exc |-> ValueError("Department"), db |-> d]
        ELSE [exc |-> NoExc,
              db |-> [d EXCEPT !.departments = Put(d.departments, payload.id, row)]]

\* state.get("begin"), state.get("end") as a condition: null and 0 are falsy
TruthyMs(v) == v # NoMs /\ v # 0

\* datetime.fromtimestamp(v / 1000) if v else None
StateTime(v) == IF TruthyMs(v) THEN v \div 1000 ELSE NoTime

\* any(state.get("begin") or state.get("end") for state in states)
is_sprint(states) ==
    \E i \in 1..Len(states) : TruthyMs(states[i].begin) \/ TruthyMs(states[i].end)

\* delete(<State>).where(sticker_id == sticker_id): the rows that stay
OtherStates(tbl, sticker_id) ==
    [k \in {x \in DOMAIN tbl : tbl[x].sticker_id # sticker_id} |-> tbl[k]]

\* the state ids the loop adds (a state without id is skipped)
StateIds(states) ==
    {states[i].id : i \in {j \in 1..Len(states) : states[j].id # NULL}}

\* an added state's primary key is taken: by a state of another sticker, or
\* by an earlier state of the same payload
StateKeyTaken(tbl, sticker_id, states) ==
    \/ StateIds(states) \cap DOMAIN OtherStates(tbl, sticker_id) # {}
    \/ \E i, j \in 1..Len(states) :
          i # j /\ states[i].id # NULL /\ states[i].id = states[j].id

\* the table after the delete and the adds; sprint tells which columns the
\* state rows have
ReplaceStates(tbl, sticker_id, states, sprint) ==
    LET kept == OtherStates(tbl, sticker_id)
        at(k) == CHOOSE i \in 1..Len(states) : states[i].id = k
    IN  [k \in StateIds(states) \cup DOMAIN kept |->
            IF k \in StateIds(states)
            THEN IF sprint
                 THEN [sticker_id |-> sticker_id, name |-> states[at(k)].name,
                       begin |-> StateTime(states[at(k)].begin),
                       end |-> StateTime(states[at(k)].end)]
                 ELSE [sticker_id |-> sticker_id, name |-> states[at(k)].name]
            ELSE kept[k]]

\* lines 338-369 (sprint) and 370-406 (string); the unique violation of an
\* added state is raised by the flush
upsert_sticker_from_payload(payload, d) ==
    LET sticker_id == payload.id
        row == [name |-> IF payload.name = NULL THEN "" ELSE payload.name]
    IN  IF sticker_id = NULL THEN [exc |-> ValueError("Sticker"), db |-> d]
        ELSE IF is_sprint(payload.states)
        THEN IF StateKeyTaken(d.sprint_states, sticker_id, payload.states)
             THEN [exc |-> UniqueViolation("sprint_states"), db |-> d]
             ELSE [exc |-> NoExc,
                   db |-> [d EXCEPT
                     !.sprint_stickers = Put(d.sprint_stickers, sticker_id, row),
                     !.sprint_states = ReplaceStates(d.sprint_states, sticker_id,
                                                     payload.states, TRUE)]]
        ELSE IF StateKeyTaken(d.string_states, sticker_id, payload.states)
             THEN [exc |-> UniqueViolation("string_states"), db |-> d]
             ELSE [exc |-> NoExc,
                   db |-> [d EXCEPT
                     !.string_stickers = Put(d.string_stickers, sticker_id, row),
                     !.string_states = ReplaceStates(d.string_states, sticker_id,
                                                     payload.states, FALSE)]]

----------------------------------------------------------------------------
(* session.commit(): the flush sends one INSERT or UPDATE per changed row  *)
(* and the database checks NOT NULL, then the foreign keys in column       *)
(* order.  On an error nothing of the pending state is kept.               *)
ChangedCols(old, new, table, id) ==
    IF ~Has(old[table], id) THEN InsertCols(table)
    ELSE CASE table = "tasks" ->
                IF old.tasks[id].column_id # new.tasks[id].column_id
                THEN {"column_id"} ELSE {}
           [] table = "boards" ->
                IF old.boards[id].project_id # new.boards[id].project_id
                THEN {"project_id"} ELSE {}
           [] table = "columns" ->
                IF old.columns[id].board_id # new.columns[id].board_id
                THEN {"board_id"} ELSE {}
           [] table = "comments" ->
                (IF old.comments[id].task_id # new.comments[id].task_id
                 THEN {"task_id"} ELSE {})
                \cup (IF old.comments[id].author_id # new.comments[id].author_id
                      THEN {"author_id"} ELSE {})
           [] OTHER -> {}

\* the constraint violations of one pending row, first violation first
RowError(old, new, table, id) ==
    LET sql == SqlCols(table, ~Has(old[table], id),
                       ChangedCols(old, new, table, id))
        r == new[table][id]
    IN  CASE table = "tasks" ->
                IF r.column_id # NULL /\ ~Has(new.columns, r.column_id)
                THEN ForeignKeyViolation(table, "column_id", sql) ELSE NoExc
          [] table = "boards" ->
                IF r.project_id = NULL
                THEN NotNullViolation(table, "project_id", sql)
                ELSE IF ~Has(new.projects, r.project_id)
                THEN ForeignKeyViolation(table, "project_id", sql) ELSE NoExc
          [] table = "columns" ->
                IF r.board_id = NULL
                THEN NotNullViolation(table, "board_id", sql)
                ELSE IF ~Has(new.boards, r.board_id)
                THEN ForeignKeyViolation(table, "board_id", sql) ELSE NoExc
          [] table = "comments" ->
                IF r.task_id = NULL
                THEN NotNullViolation(table, "task_id", sql)
                ELSE IF ~Has(new.tasks, r.task_id)
                THEN ForeignKeyViolation(table, "task_id", sql)
                ELSE IF r.author_id # NULL /\ ~Has(new.users, r.author_id)
                THEN ForeignKeyViolation(table, "author_id", sql) ELSE NoExc
          [] OTHER -> NoExc

Tables == {"projects", "boards", "columns", "tasks", "users", "comments"}

\* rows of the pending state that differ from the committed state
Dirty(old, new) ==
    {<<t, id>> \in Tables \X {"p1", "b1", "c1", "t1", "u1", "m1"} :
        Has(new[t], id) /\ (~Has(old[t], id) \/ old[t][id] # new[t][id])}

\* variant of session_commit on a database that enforces no constraint
session_commit_Unchecked(old, new) == [exc |-> NoExc, db |-> new]

\* variant of session_commit that keeps the rows of a failed flush
session_commit_NoRollback(old, new) ==
    LET bad == {x \in Dirty(old, new) :
                    Raised(RowError(old, new, x[1], x[2]))}
    IN  IF bad = {} THEN [exc |-> NoExc, db |-> new]
        ELSE LET x == CHOOSE y \in bad : TRUE
             IN  [exc |-> RowError(old, new, x[1], x[2]), db |-> new]

\* [exc, db]: the committed state after commit, or the old one with the error
session_commit(old, new) ==
    LET bad == {x \in Dirty(old, new) :
                    Raised(RowError(old, new, x[1], x[2]))}
    IN  IF bad = {} THEN [exc |-> NoExc, db |-> new]
        ELSE LET x == CHOOSE y \in bad : TRUE
             IN  [exc |-> RowError(old, new, x[1], x[2]), db |-> old]

----------------------------------------------------------------------------
(* Dispatch by event-type prefix.                                          *)
Range(f) == {f[i] : i \in DOMAIN f}

\* event_type.split("-")[0]
SplitDash(event_type) ==
    LET first == CHOOSE i \in 1..Len(event_type) :
                    /\ event_type[i] = "-"
                    /\ \A j \in 1..(i - 1) : event_type[j] # "-"
    IN  SubSeq(event_type, 1, first - 1)

\* variant of entity_prefix that cuts at the first "-" or "_"
entity_prefix_AnySeparator(event_type, entity_type) ==
    IF \E i \in 1..Len(event_type) : event_type[i] \in {"-", "_"}
    THEN SubSeq(event_type, 1,
                (CHOOSE i \in 1..Len(event_type) :
                    /\ event_type[i] \in {"-", "_"}
                    /\ \A j \in 1..(i - 1) : event_type[j] \notin {"-", "_"}) - 1)
    ELSE entity_type

entity_prefix(event_type, entity_type) ==
    IF "-" \in Range(event_type) THEN SplitDash(event_type) ELSE entity_type

\* the branch of the if/elif chain an entity prefix selects
Handler(prefix) ==
    CASE prefix = <<"task">> -> "task"
      [] prefix = <<"project">> -> "project"
      [] prefix \in {<<"chat", "_", "message">>, <<"comment">>} -> "comment"
      [] prefix = <<"board">> -> "board"
      [] prefix = <<"column">> -> "column"
      [] prefix = <<"user">> -> "user"
      [] prefix = <<"sticker">> -> "sticker"
      [] prefix = <<"department">> -> "department"
      [] OTHER -> "none"

\* variant of Upsert whose final else branch raises instead of logging
Upsert_RejectsUnknown(kind, payload, d) ==
    CASE kind = "task" -> upsert_task_from_payload(payload, d)
      [] kind = "project" -> upsert_project_from_payload(payload, d)
      [] kind = "comment" -> upsert_comment_from_payload(payload, d, Now)
      [] kind = "board" -> upsert_board_from_payload(payload, d)
      [] kind = "column" -> upsert_column_from_payload(payload, d)
      [] kind = "user" -> upsert_user_from_payload(payload, d)
      [] kind = "sticker" -> upsert_sticker_from_payload(payload, d)
      [] kind = "department" -> upsert_department_from_payload(payload, d)
      [] OTHER -> [exc |-> ValueError("Unknown"), db |-> d]

\* lines 656-696: the branch taken; group_chat and unknown prefixes only log
Upsert(kind, payload, d) ==
    CASE kind = "task" -> upsert_task_from_payload(payload, d)
      [] kind = "project" -> upsert_project_from_payload(payload, d)
      [] kind = "comment" -> upsert_comment_from_payload(payload, d, Now)
      [] kind = "board" -> upsert_board_from_payload(payload, d)
      [] kind = "column" -> upsert_column_from_payload(payload, d)
      [] kind = "user" -> upsert_user_from_payload(payload, d)
      [] kind = "sticker" -> upsert_sticker_from_payload(payload, d)
      [] kind = "department" -> upsert_department_from_payload(payload, d)
      [] OTHER -> [exc |-> NoExc, db |-> d]

\* session.commit() of a session whose upsert returned u; an exception in
\* the upsert leaves the committed state d
CommitPending(d, u) ==
    IF Raised(u.exc) THEN [exc |-> u.exc, db |-> d]
    ELSE session_commit(d, u.db)

\* the upsert followed by session.commit(); a failure leaves d (rollback)
UpsertCommit(kind, payload, d) == CommitPending(d, Upsert(kind, payload, d))

----------------------------------------------------------------------------
(* Missing-dependency resolver: [ok, db].                                  *)
NotResolved(d) == [ok |-> FALSE, db |-> d]

\* variant of Resolved that reports success whatever the commit did
Resolved_Always(r) == [ok |-> TRUE, db |-> r.db]

\* True after a committed upsert; the except branch (rollback) otherwise
Resolved(r) == [ok |-> ~Raised(r.exc), db |-> r.db]

fetch_project(a, entity_id, d) ==
    LET data == ApiGet(a, "project", entity_id)
    IN  IF Truthy(data) THEN Resolved(UpsertCommit("project", data, d))
        ELSE NotResolved(d)

fetch_board(a, entity_id, d) ==
    LET data == ApiGet(a, "board", entity_id)
    IN  IF Truthy(data)
        THEN Resolved(UpsertCommit("board", data,
                IF data.projectId # NULL
                THEN fetch_project(a, data.projectId, d).db ELSE d))
        ELSE NotResolved(d)

\* variant of fetch_column that does not look up the column's board first
fetch_column_NoParent(a, entity_id, d) ==
    LET data == ApiGet(a, "column", entity_id)
    IN  IF Truthy(data) THEN Resolved(UpsertCommit("column", data, d))
        ELSE NotResolved(d)

fetch_column(a, entity_id, d) ==
    LET data == ApiGet(a, "column", entity_id)
    IN  IF Truthy(data)
        THEN Resolved(UpsertCommit("column", data,
                IF data.boardId # NULL
                THEN fetch_board(a, data.boardId, d).db ELSE d))
        ELSE NotResolved(d)

\* lines 84-98: the task's column was looked up, c is the outcome
fetch_task_retry(data, c) ==
    IF c.ok THEN Resolved(UpsertCommit("task", data, c.db))
    ELSE NotResolved(c.db)

\* lines 73-98: r is the outcome of the task's first upsert and commit
fetch_task_first(a, data, d, r) ==
    IF ~Raised(r.exc) THEN [ok |-> TRUE, db |-> r.db]
    ELSE IF /\ r.exc.cls = "IntegrityError"
            /\ "column_id" \in r.exc.mentions
            /\ data.columnId # NULL
    THEN fetch_task_retry(data, fetch_column(a, data.columnId, d))
    ELSE NotResolved(d)

fetch_task(a, entity_id, d) ==
    LET data == ApiGet(a, "task", entity_id)
    IN  IF Truthy(data)
        THEN fetch_task_first(a, data, d, UpsertCommit("task", data, d))
        ELSE NotResolved(d)

\* api_users.get_users(client): the company-wide list
get_users(a) == IF "user" \in a THEN {ApiData("user")} ELSE {}

\* the call of the users endpoint, or of the stickers endpoint, raises
UsersError == "users_error"
StickersError == "stickers_error"

\* api_stickers.get_sprint_stickers(client)
get_sprint_stickers(a) == IF "sticker" \in a THEN {ApiData("sticker")} ELSE {}

\* lines 131-149; an exception of get_users returns False
fetch_user(a, entity_id, d) ==
    LET found == {u \in get_users(a) : u.id = entity_id}
    IN  IF UsersError \in a \/ found = {} THEN NotResolved(d)
        ELSE Resolved(UpsertCommit("user", CHOOSE u \in found : TRUE, d))

\* lines 151-171; an exception of get_sprint_stickers returns False
fetch_sticker(a, entity_id, d) ==
    LET found == {x \in get_sprint_stickers(a) : x.id = entity_id}
    IN  IF StickersError \in a \/ found = {} THEN NotResolved(d)
        ELSE Resolved(UpsertCommit("sticker", CHOOSE x \in found : TRUE, d))

\* variant of the resolver that takes a kind it does not know for a task
fetch_and_create_missing_entity_DefaultsToTask(a, entity_type, entity_id, d) ==
    CASE entity_type = "project" -> fetch_project(a, entity_id, d)
      [] entity_type = "board" -> fetch_board(a, entity_id, d)
      [] entity_type = "column" -> fetch_column(a, entity_id, d)
      [] entity_type = "user" -> fetch_user(a, entity_id, d)
      [] entity_type = "sticker" -> fetch_sticker(a, entity_id, d)
      [] OTHER -> fetch_task(a, entity_id, d)

fetch_and_create_missing_entity(a, entity_type, entity_id, d) ==
    CASE entity_type = "task" -> fetch_task(a, entity_id, d)
      [] entity_type = "project" -> fetch_project(a, entity_id, d)
      [] entity_type = "board" -> fetch_board(a, entity_id, d)
      [] entity_type = "column" -> fetch_column(a, entity_id, d)
      [] entity_type = "user" -> fetch_user(a, entity_id, d)
      [] entity_type = "sticker" -> fetch_sticker(a, entity_id, d)
      [] OTHER -> NotResolved(d)

\* the calls of the source API one call of the resolver issues, in order:
\* the kind's get_<kind>, then those of the recursive call on the parent
\* (lines 70-129); "users" and "stickers" are the two list calls
RECURSIVE Fetches(_, _, _, _)
Fetches(a, entity_type, entity_id, d) ==
    CASE entity_type = "task" ->
            LET data == ApiGet(a, "task", entity_id)
                exc == UpsertCommit("task", data, d).exc
            IN  <<"task">> \o
                IF /\ Truthy(data)
                   /\ exc.cls = "IntegrityError"
                   /\ "column_id" \in exc.mentions
                   /\ data.columnId # NULL
                THEN Fetches(a, "column", data.columnId, d) ELSE <<>>
      [] entity_type = "project" -> <<"project">>
      [] entity_type = "board" ->
            LET data == ApiGet(a, "board", entity_id)
            IN  <<"board">> \o
                IF Truthy(data) /\ data.projectId # NULL
                THEN Fetches(a, "project", data.projectId, d) ELSE <<>>
      [] entity_type = "column" ->
            LET data == ApiGet(a, "column", entity_id)
            IN  <<"column">> \o
                IF Truthy(data) /\ data.boardId # NULL
                THEN Fetches(a, "board", data.boardId, d) ELSE <<>>
      [] entity_type = "user" -> <<"users">>
      [] entity_type = "sticker" -> <<"stickers">>
      [] OTHER -> <<>>

----------------------------------------------------------------------------
(* catch_up, one event: the local session's work (lines 646-825).  The     *)
(* result is the exception that leaves the block (NoExc if none), the      *)
(* committed mirror, and what was done on the way.                         *)

\* the (fk_field, missing_id) pair parsed from the error text
FkTarget(exc, entity_data) ==
    IF "task_id" \in exc.mentions
    THEN [fk_field |-> "task",
          missing_id |-> Or2(Or2(entity_data.taskId, entity_data.chatId),
                             entity_data.propTaskId)]
    ELSE IF "column_id" \in exc.mentions
    THEN [fk_field |-> "column", missing_id |-> entity_data.columnId]
    ELSE IF "board_id" \in exc.mentions
    THEN [fk_field |-> "board", missing_id |-> entity_data.boardId]
    ELSE IF "project_id" \in exc.mentions
    THEN [fk_field |-> "project", missing_id |-> entity_data.projectId]
    ELSE IF "author_id" \in exc.mentions
    THEN [fk_field |-> "user",
          missing_id |-> Or2(entity_data.authorId, entity_data.userId)]
    ELSE [fk_field |-> NULL, missing_id |-> NULL]

Outcome(kind, exc, d, fk_resolved, resolver, upserts) ==
    [exc |-> exc, db |-> d, fk_resolved |-> fk_resolved,
     resolver |-> resolver, upserts |-> upserts,
     committed |-> ~Raised(exc) /\ kind # "none", kind |-> kind]

\* variant of AfterRetry that counts the resolution before the retry's commit
AfterRetry_CountsFirst(kind, retry) ==
    IF ~Raised(retry.exc) THEN Outcome(kind, NoExc, retry.db, 1, 1, 2)
    ELSE Outcome(kind, retry.exc, retry.db, 1, 1, 2)

\* lines 756-806: the retry of the original upsert
AfterRetry(kind, retry) ==
    IF ~Raised(retry.exc) THEN Outcome(kind, NoExc, retry.db, 1, 1, 2)
    ELSE Outcome(kind, retry.exc, retry.db, 0, 1, 2)

\* variant of AfterResolve that retries the upsert whatever the resolver said
AfterResolve_AlwaysRetries(kind, entity_data, exc, res) ==
    AfterRetry(kind, UpsertCommit(kind, entity_data, res.db))

\* lines 755-811: res is what the resolver returned
AfterResolve(kind, entity_data, exc, res) ==
    IF res.ok THEN AfterRetry(kind, UpsertCommit(kind, entity_data, res.db))
    ELSE Outcome(kind, exc, res.db, 0, 1, 1)

\* lines 745-816: t is the parsed (fk_field, missing_id)
AfterParse(kind, entity_data, a, d, exc, t) ==
    IF t.fk_field # NULL /\ t.missing_id # NULL
    THEN AfterResolve(kind, entity_data, exc,
            fetch_and_create_missing_entity(a, t.fk_field, t.missing_id, d))
    ELSE Outcome(kind, exc, d, 0, 0, 1)

\* lines 698-825: first is the outcome of the first upsert and commit
AfterFirst(kind, entity_data, a, d, first) ==
    IF ~Raised(first.exc)
    THEN Outcome(kind, NoExc, first.db, 0, 0, IF kind = "none" THEN 0 ELSE 1)
    ELSE IF first.exc.cls = "IntegrityError" /\ first.exc.fk
    THEN AfterParse(kind, entity_data, a, d, first.exc,
                    FkTarget(first.exc, entity_data))
    ELSE Outcome(kind, first.exc, d, 0, 0, 1)

Dispatch(kind, entity_data, a, d) ==
    AfterFirst(kind, entity_data, a, d, UpsertCommit(kind, entity_data, d))

EventType(event) ==
    IF event.event_type = <<>> THEN Unknown ELSE event.event_type

EntityType(event) ==
    IF event.entity_type = <<>> THEN Unknown ELSE event.entity_type

ProcessEntity(event, a, d) ==
    Dispatch(Handler(entity_prefix(EventType(event), EntityType(event))),
             event.payload.payload, a, d)

\* the event loop's path when there is no local session or no entity data
NoEntity(d) ==
    [exc |-> NoExc, db |-> d, fk_resolved |-> 0, resolver |-> 0,
     upserts |-> 0, committed |-> FALSE, kind |-> "none"]

----------------------------------------------------------------------------
(* Event store.                                                            *)
StatusFields == {"processed", "processed_at", "retry_count", "error"}

\* webhooks/server.py: the row the receiver appends for a request body
NewEvent(id, body, received_at) ==
    [id |-> id, source |-> "yougile", event_type |-> body.event,
     entity_type |-> body.entityType, entity_id |-> body.payload.id,
     event_external_id |-> NULL, event_timestamp |-> NoTime,
     received_at |-> received_at, processed |-> FALSE,
     processed_at |-> NoTime, retry_count |-> 0, error |-> NULL,
     payload |-> body]

\* variant of Selected without the since filter
Selected_Unbounded(rows, since) ==
    {i \in 1..Len(rows) : ~rows[i].processed}

\* variant of Selected without the processed filter
Selected_AnyState(rows, since) ==
    {i \in 1..Len(rows) : since = NoTime \/ rows[i].received_at >= since}

\* variant of Selected that gives up on events that have failed before
Selected_NeverFailed(rows, since) ==
    {i \in 1..Len(rows) :
        /\ ~rows[i].processed
        /\ rows[i].retry_count = 0
        /\ (since = NoTime \/ rows[i].received_at >= since)}

\* select(WebhookEvent).where(processed.is_(False)) [.where(received_at >= since)]
Selected(rows, since) ==
    {i \in 1..Len(rows) :
        /\ ~rows[i].processed
        /\ (since = NoTime \/ rows[i].received_at >= since)}

\* .order_by(received_at.asc()): every row order that query may return
\* (a row with the least received_at first, then an order of the others)
RECURSIVE Orders(_, _)
Orders(rows, ids) ==
    IF ids = {} THEN {<<>>}
    ELSE UNION { {<<i>> \o rest : rest \in Orders(rows, ids \ {i})} :
                    i \in {j \in ids : \A k \in ids :
                              rows[j].received_at <= rows[k].received_at} }

\* variant of Flush that rewrites the table from the session's objects
Flush_LoadedOnly(rows, loaded, events) == events

\* session.commit() of the event-store session: one UPDATE per loaded row,
\* setting the attributes whose value differs from the loaded one
Flush(rows, loaded, events) ==
    [i \in 1..Len(rows) |->
        IF \E j \in 1..Len(events) : events[j].id = i
        THEN LET j == CHOOSE k \in 1..Len(events) : events[k].id = i
             IN  [f \in DOMAIN rows[i] |->
                    IF f \in StatusFields /\ events[j][f] # loaded[j][f]
                    THEN events[j][f] ELSE rows[i][f]]
        ELSE rows[i]]

\* variant of MarkProcessed that ignores the mark_processed flag
MarkProcessed_Always(event, mark_processed) ==
    [event EXCEPT !.processed = TRUE, !.processed_at = Now]

\* variant of MarkProcessed that leaves processed_at as it is
MarkProcessed_NoTimestamp(event, mark_processed) ==
    IF mark_processed THEN [event EXCEPT !.processed = TRUE] ELSE event

\* lines 837-841: the event object after a successful pass of the loop body
MarkProcessed(event, mark_processed) ==
    IF mark_processed
    THEN [event EXCEPT !.processed = TRUE, !.processed_at = Now]
    ELSE event

\* variant of MarkFailed that records the error without counting the attempt
MarkFailed_NoCount(event, exc) ==
    [event EXCEPT !.error = exc.msg]

\* lines 843-853: the event object after the except branch
MarkFailed(event, exc) ==
    [event EXCEPT !.error = exc.msg, !.retry_count = @ + 1]

\* lines 552-566: the users of the list merged into the prefetch session;
\* an exception of the call leaves the session as it is
PrefetchUsers(a, d) ==
    LET users == get_users(a)
    IN  IF UsersError \in a \/ users = {} THEN d
        ELSE Upsert("user", CHOOSE u \in users : TRUE, d).db

\* lines 568-588: the same for the stickers; [exc, db], exc being what the
\* session's flush is going to raise
PrefetchStickers(a, d) ==
    LET stickers == get_sprint_stickers(a)
    IN  IF StickersError \in a \/ stickers = {} THEN [exc |-> NoExc, db |-> d]
        ELSE Upsert("sticker", CHOOSE x \in stickers : TRUE, d)

\* lines 544-609: prefetch of the company-wide users and stickers and the
\* commit of the prefetch session
Prefetch(a, d) ==
    CommitPending(d, PrefetchStickers(a, PrefetchUsers(a, d))).db

\* variant of PrefetchRaises that lets the error of a prefetch call through
PrefetchRaises_Propagates(a) == UsersError \in a \/ StickersError \in a

\* an exception leaves the prefetch block (each except clause of lines
\* 565, 587 and 608 logs and goes on: none does)
PrefetchRaises(a) == FALSE

----------------------------------------------------------------------------
(* State machine.                                                          *)
SummaryCap == 10    \* event_summary[:10]

\* the first n elements of seq
Slice(seq, n) == SubSeq(seq, 1, IF Len(seq) < n THEN Len(seq) ELSE n)

\* variant of Result that returns the whole event_summary
Result_Uncapped(r) ==
    [examined |-> r.examined_count, processed |-> r.processed_count,
     fk_resolved |-> r.fk_resolved_count, errors |-> Len(r.errors),
     error_details |-> r.errors, event_summary |-> r.event_summary]

\* lines 862-869: the dict catch_up returns, r holding the run's counters
Result(r) ==
    [examined |-> r.examined_count, processed |-> r.processed_count,
     fk_resolved |-> r.fk_resolved_count, errors |-> Len(r.errors),
     error_details |-> r.errors,
     event_summary |-> Slice(r.event_summary, SummaryCap)]

\* catch_up has not returned
NoResult ==
    [examined |-> 0, processed |-> 0, fk_resolved |-> 0, errors |-> 0,
     error_details |-> <<>>, event_summary |-> <<>>]

\* no process_single_event call made
NoSingle ==
    [event_id |-> 0, entered |-> FALSE, dispatched |-> FALSE, ret |-> FALSE]

\* a catch_up invocation that has not started
IdleRun ==
    [pc |-> "idle", local |-> FALSE, since |-> NoTime, mark_processed |-> FALSE,
     events |-> <<>>, loaded |-> <<>>, i |-> 1, examined_count |-> 0,
     processed_count |-> 0, fk_resolved_count |-> 0, errors |-> <<>>,
     event_summary |-> <<>>, users_fetched |-> 0,
     follows |-> FALSE, prev_since |-> NoTime,
     prefetch_failed |-> FALSE,
     store0 |-> <<>>, applied0 |-> <<>>,
     last |-> [resolver |-> 0, upserts |-> 0, fk_resolved |-> 0,
               failed |-> FALSE, db |-> EmptyDb, api |-> {},
               prefix |-> <<>>, kind |-> "none"],
     single |-> NoSingle,
     result |-> NoResult]

\* the invocation in hand, and in other an invocation suspended at an await
\* while this one executes (none unless two invocations overlap)
Idle ==
    [f \in DOMAIN IdleRun \cup {"other"} |->
        IF f = "other" THEN IdleRun ELSE IdleRun[f]]

NoPrev == [done |-> FALSE, mark_processed |-> FALSE, errors |-> 0,
           since |-> NoTime]

\* no request received
NoAnswer ==
    [status |-> 0, secret |-> NULL, header |-> NULL,
     request |-> [json |-> FALSE,
                  value |-> [event |-> <<>>, entityType |-> <<>>,
                             payload |-> EmptyPayload],
                  text |-> ""],
     persists |-> FALSE, len0 |-> 0, during |-> 0]

\* no YouGileClient.request call made
NoCall ==
    [pc |-> "idle", max_retries |-> 0, attempt |-> 0, attempts |-> 0,
     outcomes |-> <<>>, sleeps |-> <<>>, error |-> "none"]

\* no primitive applied on its own
NoUpsert ==
    [clock |-> Now, n |-> 0, kind |-> "none", payload |-> EmptyPayload,
     ok |-> FALSE, again |-> FALSE, once |-> EmptyDb, before |-> EmptyDb,
     first |-> [created_at |-> NoTime, completed_at |-> NoTime,
                archived_at |-> NoTime],
     fetched |-> <<>>,
     call |-> NoCall]

Init ==
    /\ store = <<>>
    /\ db = EmptyDb
    /\ api \in ApiConfigs
    /\ run = Idle
    /\ applied = [i \in 1..MaxEvents |-> 0]
    /\ hist = [calls |-> 0, quiet |-> FALSE, prev |-> NoPrev, http |-> NoAnswer]
    /\ up = NoUpsert

\* an HTTP request body: JSON text that parses to value, or other text
JsonRequest(value) == [json |-> TRUE, value |-> value, text |-> ""]

TextRequest(text) ==
    [json |-> FALSE,
     value |-> [event |-> <<>>, entityType |-> <<>>, payload |-> EmptyPayload],
     text |-> text]

\* server.py lines 140-143: request.json(), or {"raw": <the body's text>}
ParseBody(request) ==
    IF request.json THEN request.value
    ELSE [event |-> <<>>, entityType |-> <<>>, payload |-> EmptyPayload,
          raw |-> request.text]

\* server.py lines 135-138: secret is WEBHOOK_SECRET, header X-Webhook-Secret
SecretRejects(secret, header) ==
    /\ secret \notin {NULL, ""}
    /\ header \in {NULL, ""} \/ header # secret

\* what the latest request was and how it was answered; during is the
\* number of the catch_up invocation in progress when it arrived (0: none)
Answer(status, secret, header, request, persists) ==
    [status |-> status, secret |-> secret, header |-> header,
     request |-> request, persists |-> persists, len0 |-> Len(store),
     during |-> IF run.pc = "loop" THEN hist.calls ELSE 0]

\* webhooks/server.py yougile_webhook.  persists is "the event store takes
\* the row": when it does not (no session factory, or an exception of the
\* add or the commit) the handler logs and answers success all the same.
\* A run reads the store only in its selection and writes it only in its
\* final commit, so a request arriving anywhere inside the loop is the one
\* arriving right after the selection.
yougile_webhook(secret, header, request, persists) ==
    /\ run.pc = "loop" => run.i = 1
    /\ IF SecretRejects(secret, header)
       THEN /\ store' = store
            /\ hist' = [hist EXCEPT
                    !.http = Answer(401, secret, header, request, persists)]
       ELSE IF ~persists
       THEN /\ store' = store
            /\ hist' = [hist EXCEPT
                    !.http = Answer(200, secret, header, request, persists)]
       ELSE /\ Len(store) < MaxEvents
            /\ \E received_at \in
                    IF store = <<>> THEN {1}
                    ELSE {store[Len(store)].received_at,
                          store[Len(store)].received_at + 1} :
                  store' = Append(store, NewEvent(Len(store) + 1,
                                                  ParseBody(request),
                                                  received_at))
            /\ hist' = [hist EXCEPT
                    !.quiet = FALSE,
                    !.http = Answer(200, secret, header, request, persists)]
    /\ UNCHANGED <<db, api, run, applied, up>>

\* a request with a JSON body to a receiver without a configured secret
\* whose event store works
Receive(body) == yougile_webhook(NULL, NULL, JsonRequest(body), TRUE)

\* catch_up up to the selection query (lines 510-624); calls is the number
\* of invocations made once this one is
StartRun(local, since, mark_processed, calls) ==
    /\ run.pc # "loop"
    /\ \E ord \in Orders(store, Selected(store, since)) :
          LET events == [j \in DOMAIN ord |-> store[ord[j]]]
          IN  run' = [Idle EXCEPT
                        !.pc = IF local /\ PrefetchRaises(api)
                               THEN "aborted" ELSE "loop",
                        !.local = local, !.since = since,
                        !.mark_processed = mark_processed,
                        !.events = events, !.loaded = events,
                        !.prefetch_failed =
                            local /\ (UsersError \in api \/ StickersError \in api),
                        !.store0 = store, !.applied0 = applied,
                        !.prev_since = hist.prev.since,
                        !.follows = /\ hist.prev.done
                                    /\ hist.quiet
                                    /\ hist.prev.mark_processed
                                    /\ hist.prev.errors = 0]
    /\ db' = IF local THEN Prefetch(api, db) ELSE db
    /\ hist' = [hist EXCEPT !.calls = calls, !.quiet = TRUE]
    /\ UNCHANGED <<store, api, applied, up>>

CatchUpStart(local, since, mark_processed) ==
    /\ hist.calls < MaxCalls
    /\ StartRun(local, since, mark_processed, hist.calls + 1)

\* lines 703-742: what the error of the event's first upsert makes the
\* resolver's target, d being the mirror the event is processed against
TargetOf(event, d) ==
    FkTarget(UpsertCommit(Handler(entity_prefix(EventType(event),
                                                EntityType(event))),
                          event.payload.payload, d).exc,
             event.payload.payload)

\* one pass of the loop body (lines 626-853); r is the outcome of the
\* event's entity processing
LoopBody(event, r) ==
    /\ db' = r.db
    /\ applied' = [applied EXCEPT ![event.id] =
                        IF r.committed THEN @ + 1 ELSE @]
    /\ run' = [run EXCEPT
            !.i = @ + 1,
            !.examined_count = @ + 1,
            !.fk_resolved_count = @ + r.fk_resolved,
            \* api_users.get_users calls made by the resolver (line 143)
            !.users_fetched =
                IF r.resolver = 1 /\ TargetOf(event, db).fk_field = "user"
                THEN @ + 1 ELSE @,
            !.last = [resolver |-> r.resolver, upserts |-> r.upserts,
                      fk_resolved |-> r.fk_resolved,
                      failed |-> Raised(r.exc), db |-> db, api |-> api,
                      prefix |-> IF run.local /\ Truthy(event.payload.payload)
                                 THEN entity_prefix(EventType(event),
                                                    EntityType(event))
                                 ELSE <<>>,
                      kind |-> r.kind],
            !.event_summary =
                IF ~Raised(r.exc) THEN Append(@, event.id) ELSE @,
            !.processed_count =
                IF ~Raised(r.exc) /\ run.mark_processed THEN @ + 1 ELSE @,
            !.errors =
                IF ~Raised(r.exc) THEN @
                ELSE Append(@, [event_id |-> event.id, error |-> r.exc.msg]),
            !.events[run.i] =
                IF ~Raised(r.exc) THEN MarkProcessed(event, run.mark_processed)
                ELSE MarkFailed(event, r.exc)]

CatchUpEvent ==
    /\ run.pc = "loop"
    /\ run.i <= Len(run.events)
    /\ LoopBody(run.events[run.i],
                IF run.local /\ Truthy(run.events[run.i].payload.payload)
                THEN ProcessEntity(run.events[run.i], api, db)
                ELSE NoEntity(db))
    /\ UNCHANGED <<store, api, hist, up>>

\* the commit after the loop and the return (lines 855-869)
CatchUpCommit ==
    /\ run.pc = "loop"
    /\ run.i > Len(run.events)
    /\ store' = Flush(store, run.loaded, run.events)
    /\ run' = [run EXCEPT
                  !.pc = "done",
                  !.result = Result(run)]
    /\ hist' = [hist EXCEPT !.prev =
                    [done |-> TRUE, mark_processed |-> run.mark_processed,
                     errors |-> Len(run.errors), since |-> run.since]]
    /\ UNCHANGED <<db, api, applied, up>>

\* lines 935-961: the same chain without the group_chat branch
SingleHandler(event) ==
    Handler(entity_prefix(EventType(event), EntityType(event)))

\* variant of SingleProcess that handles the event as the batch path does
SingleProcess_Resolves(event, a, d) ==
    LET r == ProcessEntity(event, a, d)
    IN  [exc |-> r.exc, db |-> r.db]

\* lines 931-964: the handler's upsert and local_sess.commit(); [exc, db]
SingleProcess(event, a, d) ==
    UpsertCommit(SingleHandler(event), event.payload.payload, d)

\* lines 925-987: r is the outcome of the upsert and commit
SingleBody(event, r) ==
    IF ~Truthy(event.payload.payload)
    THEN /\ store' = [store EXCEPT ![event.id] = MarkProcessed(event, TRUE)]
         /\ UNCHANGED <<db, applied>>
    ELSE IF ~Raised(r.exc)
    THEN /\ store' = [store EXCEPT ![event.id] = MarkProcessed(event, TRUE)]
         /\ db' = r.db
         /\ applied' = [applied EXCEPT ![event.id] =
                            IF SingleHandler(event) # "none" THEN @ + 1 ELSE @]
    ELSE /\ store' = [store EXCEPT ![event.id] = MarkFailed(event, r.exc)]
         /\ UNCHANGED <<db, applied>>

\* scalar_one_or_none() found no row
NoRow ==
    NewEvent(0, [event |-> <<>>, entityType |-> <<>>, payload |-> EmptyPayload],
             NoTime)

\* variant of SingleReturn that reports an already processed event as a
\* failure
SingleReturn_ProcessedIsFailure(event_id, found, event, r) ==
    [Idle EXCEPT
        !.pc = "single",
        !.store0 = store,
        !.last.db = db,
        !.last.failed = found /\ ~event.processed
                        /\ Truthy(event.payload.payload) /\ Raised(r.exc),
        !.last.prefix = IF found /\ ~event.processed
                           /\ Truthy(event.payload.payload)
                        THEN entity_prefix(EventType(event), EntityType(event))
                        ELSE <<>>,
        !.last.kind = IF found /\ ~event.processed
                         /\ Truthy(event.payload.payload)
                      THEN SingleHandler(event) ELSE "none",
        !.single = [event_id |-> event_id,
                    entered |-> found /\ ~event.processed,
                    dispatched |-> found /\ ~event.processed
                                   /\ Truthy(event.payload.payload),
                    ret |-> IF ~found \/ event.processed THEN FALSE
                            ELSE IF ~Truthy(event.payload.payload) THEN TRUE
                            ELSE ~Raised(r.exc)]]

\* what the call did and returned: found is "the row exists", r the outcome
\* of the upsert and commit
SingleReturn(event_id, found, event, r) ==
    [Idle EXCEPT
        !.pc = "single",
        !.store0 = store,
        !.last.db = db,
        !.last.failed = found /\ ~event.processed
                        /\ Truthy(event.payload.payload) /\ Raised(r.exc),
        !.last.prefix = IF found /\ ~event.processed
                           /\ Truthy(event.payload.payload)
                        THEN entity_prefix(EventType(event), EntityType(event))
                        ELSE <<>>,
        !.last.kind = IF found /\ ~event.processed
                         /\ Truthy(event.payload.payload)
                      THEN SingleHandler(event) ELSE "none",
        !.single = [event_id |-> event_id,
                    entered |-> found /\ ~event.processed,
                    dispatched |-> found /\ ~event.processed
                                   /\ Truthy(event.payload.payload),
                    ret |-> IF ~found THEN FALSE
                            ELSE IF event.processed THEN TRUE
                            ELSE IF ~Truthy(event.payload.payload) THEN TRUE
                            ELSE ~Raised(r.exc)]]

\* process_single_event(event_id) (lines 872-991); the consumer's entry
\* points are called one after the other (single consumer)
ProcessSingleEvent(event_id) ==
    /\ run.pc # "loop"
    /\ hist.calls < MaxCalls
    /\ hist' = [hist EXCEPT !.calls = @ + 1, !.quiet = FALSE]
    /\ IF event_id \notin 1..Len(store)
       THEN /\ run' = SingleReturn(event_id, FALSE, NoRow,
                                   [exc |-> NoExc, db |-> db])
            /\ UNCHANGED <<store, db, applied>>
       ELSE IF store[event_id].processed
       THEN /\ run' = SingleReturn(event_id, TRUE, store[event_id],
                                   [exc |-> NoExc, db |-> db])
            /\ UNCHANGED <<store, db, applied>>
       ELSE /\ run' = SingleReturn(event_id, TRUE, store[event_id],
                                   SingleProcess(store[event_id], api, db))
            /\ SingleBody(store[event_id],
                          SingleProcess(store[event_id], api, db))
    /\ UNCHANGED <<api, up>>

Next ==
    \/ \E body \in Bodies : Receive(body)
    \/ \E local \in BOOLEAN, since \in {NoTime, 2}, mark_processed \in BOOLEAN :
          CatchUpStart(local, since, mark_processed)
    \/ CatchUpEvent
    \/ CatchUpCommit
    \/ \E event_id \in 1..MaxEvents : ProcessSingleEvent(event_id)

Spec == Init /\ [][Next]_vars

\* the same program against a source API that holds part of the chain
ChainInit ==
    /\ store = <<>>
    /\ db = EmptyDb
    /\ api \in ChainApiConfigs
    /\ run = Idle
    /\ applied = [i \in 1..MaxEvents |-> 0]
    /\ hist = [calls |-> 0, quiet |-> FALSE, prev |-> NoPrev, http |-> NoAnswer]
    /\ up = NoUpsert

ChainSpec == ChainInit /\ [][Next]_vars

\* a mirror that holds the chain project - board - column - task and a
\* comment without author
SeededDb ==
    [projects |-> ("p1" :> [title |-> "A"]),
     boards |-> ("b1" :> [title |-> "A", project_id |-> "p1"]),
     columns |-> ("c1" :> [title |-> "A", board_id |-> "b1"]),
     tasks |-> ("t1" :> [title |-> "A", column_id |-> "c1",
                         created_at |-> NoTime, completed_at |-> NoTime,
                         archived_at |-> NoTime]),
     users |-> EmptyFn,
     comments |-> ("m1" :> [task_id |-> "t1", author_id |-> NULL,
                            timestamp |-> 1]),
     departments |-> EmptyFn,
     sprint_stickers |-> EmptyFn, sprint_states |-> EmptyFn,
     string_stickers |-> EmptyFn, string_states |-> EmptyFn]

\* the same program over a mirror that already holds entities
SeededInit ==
    /\ store = <<>>
    /\ db = SeededDb
    /\ api \in ApiConfigs
    /\ run = Idle
    /\ applied = [i \in 1..MaxEvents |-> 0]
    /\ hist = [calls |-> 0, quiet |-> FALSE, prev |-> NoPrev, http |-> NoAnswer]
    /\ up = NoUpsert

SeededSpec == SeededInit /\ [][Next]_vars

----------------------------------------------------------------------------
(* The program against a source API whose company-wide lists hold a user   *)
(* and a sticker and whose list calls may fail for a while: comments       *)
(* arrive whose author the mirror may not hold yet.                        *)
UserApiConfigs ==
    { {"user"}, {"user", UsersError}, {"user", "sticker", StickersError},
      FullApi \cup {"user", "sticker", UsersError} }

CommentBy(key) ==
    [event |-> ChatMessageCreated, entityType |-> <<>>,
     payload |-> [[EmptyPayload EXCEPT !.id = "m1", !.taskId = "t1",
                                       !.timestamp = 1000]
                        EXCEPT ![key] = "u1"]]

AuthoredBodies ==
    { CommentBy("authorId"), CommentBy("actionBy"),
      [event |-> TaskCreated, entityType |-> <<>>,
       payload |-> [EmptyPayload EXCEPT !.id = "t1", !.title = "A",
                                        !.timestamp = 1]] }

PrefetchInit ==
    /\ store = <<>>
    /\ db \in {EmptyDb, SeededDb}
    /\ api \in UserApiConfigs
    /\ run = Idle
    /\ applied = [i \in 1..MaxEvents |-> 0]
    /\ hist = [calls |-> 0, quiet |-> FALSE, prev |-> NoPrev, http |-> NoAnswer]
    /\ up = NoUpsert

\* the source API's list calls work again
ApiRecovers ==
    /\ api \cap {UsersError, StickersError} # {}
    /\ api' = api \ {UsersError, StickersError}
    /\ UNCHANGED <<store, db, run, applied, hist, up>>

PrefetchNext ==
    \/ \E body \in AuthoredBodies : Receive(body)
    \/ \E local \in BOOLEAN, since \in {NoTime, 2}, mark_processed \in BOOLEAN :
          CatchUpStart(local, since, mark_processed)
    \/ CatchUpEvent
    \/ CatchUpCommit
    \/ ApiRecovers

PrefetchSpec == PrefetchInit /\ [][PrefetchNext]_vars

----------------------------------------------------------------------------
(* Both entry points over a store that holds an event of any shape (event  *)
(* types with and without separators, with and without an entity_type      *)
(* hint, payloads with and without an id) and a task event after it.       *)
DispatchTypes ==
    { <<"task", "-", "created">>, <<"project", "-", "updated">>,
      <<"board", "-", "created">>, <<"column", "-", "created">>,
      <<"user", "-", "created">>, <<"comment", "-", "created">>,
      <<"sticker", "-", "created">>, <<"department", "-", "updated">>,
      ChatMessageCreated, GroupChatCreated,
      <<"chat", "_", "message">>, <<"task", "_", "moved">>,
      <<"task">>, <<>> }

DispatchHints == { <<>>, <<"task">>, <<"project">> }

DispatchPayloads ==
    { [EmptyPayload EXCEPT !.id = "t1", !.title = "A"],
      [EmptyPayload EXCEPT !.title = "B", !.name = "B"] }

DispatchBodies ==
    { [event |-> t, entityType |-> h, payload |-> p] :
        t \in DispatchTypes, h \in DispatchHints, p \in DispatchPayloads }

DispatchInit ==
    /\ \E body \in DispatchBodies :
          store = <<NewEvent(1, body, 1),
                    NewEvent(2, [event |-> TaskCreated, entityType |-> <<>>,
                                 payload |-> [EmptyPayload EXCEPT
                                                !.id = "t1", !.title = "A"]], 2)>>
    /\ db = EmptyDb
    /\ api \in ApiConfigs
    /\ run = Idle
    /\ applied = [i \in 1..MaxEvents |-> 0]
    /\ hist = [calls |-> 0, quiet |-> FALSE, prev |-> NoPrev, http |-> NoAnswer]
    /\ up = NoUpsert

DispatchNext ==
    \/ \E local \in BOOLEAN, since \in {NoTime, 2}, mark_processed \in BOOLEAN :
          CatchUpStart(local, since, mark_processed)
    \/ CatchUpEvent
    \/ CatchUpCommit
    \/ \E event_id \in 1..MaxEvents : ProcessSingleEvent(event_id)

DispatchSpec == DispatchInit /\ [][DispatchNext]_vars

----------------------------------------------------------------------------
(* The receiver on its own: requests with and without the secret header,   *)
(* with JSON and other bodies, to a receiver with or without a configured  *)
(* secret, whose event store may refuse the row.                           *)
Secrets == {NULL, "", "s"}

Headers == {NULL, "s", "x"}

Requests == {JsonRequest(body) : body \in Bodies} \cup {TextRequest("oops")}

ReceiverNext ==
    \E secret \in Secrets, header \in Headers, request \in Requests,
       persists \in BOOLEAN :
        yougile_webhook(secret, header, request, persists)

ReceiverSpec == Init /\ [][ReceiverNext]_vars

----------------------------------------------------------------------------
(* catch_up over a store that holds more events than the summary's preview *)
(* shows: events without a handler (handled successfully, nothing written) *)
(* with, at every fail-th position, a task event without id (fails).       *)
MaxSummaryEvents == 12  \* rows in the store

SummaryBody(i, fail) ==
    IF fail # 0 /\ i % fail = 0
    THEN [event |-> TaskUpdated, entityType |-> <<>>,
          payload |-> [EmptyPayload EXCEPT !.title = "B"]]
    ELSE [event |-> GroupChatCreated, entityType |-> <<>>,
          payload |-> [EmptyPayload EXCEPT !.id = "x"]]

SummaryInit ==
    /\ \E n \in {0, 9, 10, 11, MaxSummaryEvents},
          fail \in {0, 1, 3, MaxSummaryEvents} :
          store = [i \in 1..n |-> NewEvent(i, SummaryBody(i, fail), i)]
    /\ db = EmptyDb
    /\ api = {}
    /\ run = Idle
    /\ applied = [i \in 1..MaxSummaryEvents |-> 0]
    /\ hist = [calls |-> 0, quiet |-> FALSE, prev |-> NoPrev, http |-> NoAnswer]
    /\ up = NoUpsert

SummaryNext ==
    \/ \E local \in BOOLEAN, since \in {NoTime, 2}, mark_processed \in BOOLEAN :
          CatchUpStart(local, since, mark_processed)
    \/ CatchUpEvent
    \/ CatchUpCommit

SummarySpec == SummaryInit /\ [][SummaryNext]_vars

----------------------------------------------------------------------------
(* catch_up invoked again and again with mark_processed = true (a          *)
(* scheduled job), while the source API may come to return the chain.  A   *)
(* run that has started goes through its loop and commits.                 *)
MaxRetry == 2       \* no further run once an event has failed this often
MaxLiveEvents == 1  \* rows the receiver appends while the job repeats

LiveReceive(body) ==
    /\ Len(store) < MaxLiveEvents
    /\ Receive(body)

RepeatedCatchUp(local, since) ==
    /\ \A i \in 1..Len(store) : store[i].retry_count < MaxRetry
    /\ StartRun(local, since, TRUE, hist.calls)

\* the source system comes to hold the entities the events refer to
SourceGains ==
    /\ api # FullApi
    /\ api' = FullApi
    /\ UNCHANGED <<store, db, run, applied, hist, up>>

LiveNext ==
    \/ \E body \in Bodies : LiveReceive(body)
    \/ \E local \in BOOLEAN, since \in {NoTime, 2} :
          RepeatedCatchUp(local, since)
    \/ CatchUpEvent
    \/ CatchUpCommit
    \/ SourceGains

\* The event loop has an event left to handle: where CatchUpEvent is enabled.
LoopPending ==
    run.pc = "loop" /\ run.i <= Len(run.events)

\* A started run is carried through: the coroutine is awaited to its end, so
\* the loop is not suspended forever before an event (weak fairness of
\* CatchUpEvent, written through its enabling condition LoopPending) and
\* the final commit is reached (weak fairness of CatchUpCommit).  Starting
\* a further run is the caller's choice and is not a fairness condition.
LiveSpec ==
    /\ Init
    /\ [][LiveNext]_vars
    /\ []<>~LoopPending
    /\ WF_vars(CatchUpCommit)

----------------------------------------------------------------------------
(* The repeated job over a store that already holds events of one task,    *)
(* received one after the other, each carrying its own title and column.   *)
TaskBody(title, columnId) ==
    [event |-> TaskUpdated, entityType |-> <<>>,
     payload |-> [EmptyPayload EXCEPT !.id = "t1", !.title = title,
                                      !.columnId = columnId]]

ReplayInit ==
    /\ \E title1 \in {"A", "B"}, columnId1 \in {NULL, "c1"},
          title2 \in {"A", "B"}, columnId2 \in {NULL, "c1"} :
          store = <<NewEvent(1, TaskBody(title1, columnId1), 1),
                    NewEvent(2, TaskBody(title2, columnId2), 2)>>
    /\ db = EmptyDb
    /\ api \in ApiConfigs
    /\ run = Idle
    /\ applied = [i \in 1..MaxEvents |-> 0]
    /\ hist = [calls |-> 0, quiet |-> FALSE, prev |-> NoPrev, http |-> NoAnswer]
    /\ up = NoUpsert

ReplayNext ==
    \/ \E since \in {NoTime, 2} : RepeatedCatchUp(TRUE, since)
    \/ CatchUpEvent
    \/ CatchUpCommit
    \/ SourceGains

ReplaySpec == ReplayInit /\ [][ReplayNext]_vars

----------------------------------------------------------------------------
(* Two catch_up invocations over the same stores, the second starting      *)
(* while the first is in its loop (two processes, or two tasks of one      *)
(* event loop interleaving at their awaits).  run is the invocation that   *)
(* executes, run.other the one that waits.                                 *)
Suspended(r) == [f \in DOMAIN IdleRun |-> r[f]]

\* variant of Claimed in which the rows an invocation has loaded are held
\* by it until it returns
Claimed_ByRunning(r) == {r.loaded[j].id : j \in 1..Len(r.loaded)}

\* rows the selection of a new invocation leaves out because the
\* invocation in progress holds them: none (the query of lines 614-624
\* takes no lock, and a row carries no mark of being in hand)
Claimed(r) == {}

\* catch_up called while another invocation is in its loop, up to the
\* selection query
OverlapStart(local, since, mark_processed) ==
    /\ run.pc = "loop"
    /\ run.other.pc = "idle"
    /\ hist.calls < MaxCalls
    /\ \E ord \in Orders(store, Selected(store, since) \ Claimed(run)) :
          LET events == [j \in DOMAIN ord |-> store[ord[j]]]
          IN  run' = [Idle EXCEPT
                        !.pc = "loop",
                        !.local = local, !.since = since,
                        !.mark_processed = mark_processed,
                        !.events = events, !.loaded = events,
                        !.store0 = store, !.applied0 = applied,
                        !.other = Suspended(run)]
    /\ db' = IF local THEN Prefetch(api, db) ELSE db
    /\ hist' = [hist EXCEPT !.calls = @ + 1]
    /\ UNCHANGED <<store, api, applied, up>>

\* the invocation that waits goes on and the one that executed waits
Yield ==
    /\ run.other.pc = "loop"
    /\ run' = [f \in DOMAIN Idle |->
                  IF f = "other" THEN Suspended(run) ELSE run.other[f]]
    /\ UNCHANGED <<store, db, api, applied, hist, up>>

OverlapNext ==
    \/ \E local \in BOOLEAN, since \in {NoTime, 2}, mark_processed \in BOOLEAN :
          run.pc = "idle" /\ CatchUpStart(local, since, mark_processed)
    \/ \E local \in BOOLEAN, since \in {NoTime, 2}, mark_processed \in BOOLEAN :
          OverlapStart(local, since, mark_processed)
    \/ Yield
    \/ CatchUpEvent
    \/ CatchUpCommit

OverlapSpec == ReplayInit /\ [][OverlapNext]_vars

----------------------------------------------------------------------------
(* Both entry points over a store that holds one comment event whose       *)
(* payload names its task under any combination of chatId, taskId and      *)
(* properties.taskId.                                                      *)
TaskRefInit ==
    /\ \E chatId \in {NULL, "t1", "t2"}, taskId \in {NULL, "t1", "t2"},
          propTaskId \in {NULL, "t1", "t2"} :
          store = <<NewEvent(1,
                      [event |-> ChatMessageCreated, entityType |-> <<>>,
                       payload |-> [EmptyPayload EXCEPT
                                      !.id = "m1", !.timestamp = 1000,
                                      !.chatId = chatId, !.taskId = taskId,
                                      !.propTaskId = propTaskId]], 1)>>
    /\ db \in {EmptyDb, [SeededDb EXCEPT !.comments = EmptyFn]}
    /\ api \in ApiConfigs
    /\ run = Idle
    /\ applied = [i \in 1..MaxEvents |-> 0]
    /\ hist = [calls |-> 0, quiet |-> FALSE, prev |-> NoPrev, http |-> NoAnswer]
    /\ up = NoUpsert

TaskRefSpec == TaskRefInit /\ [][DispatchNext]_vars

----------------------------------------------------------------------------
(* The upsert primitives on their own: any payload of any kind is applied   *)
(* and committed against the mirror, at successive instants, and the        *)
(* latest application may be repeated.                                      *)
MaxApply == 3       \* applications of fresh payloads

UpsertKinds == {"task", "project", "board", "column", "user", "comment"}

\* payloads with an id, per kind
UpsertPayloads(kind) ==
    CASE kind = "task" ->
            {[EmptyPayload EXCEPT !.id = "t1", !.title = "A",
                                  !.createdAt = ca, !.timestamp = ts,
                                  !.completedAt = co,
                                  !.archivedTimestamp = ar] :
                ca \in {NoTime, 1}, ts \in {NoTime, 2},
                co \in {NoTime, 1, 2}, ar \in {NoTime, 2, 3000}}
      [] kind = "project" ->
            {[EmptyPayload EXCEPT !.id = "p1", !.title = t] : t \in {"A", "B"}}
      [] kind = "board" ->
            {[EmptyPayload EXCEPT !.id = "b1", !.title = t,
                                  !.projectId = "p1"] : t \in {"A", "B"}}
      [] kind = "column" ->
            {[EmptyPayload EXCEPT !.id = "c1", !.title = t,
                                  !.boardId = "b1"] : t \in {"A", "B"}}
      [] kind = "user" ->
            {[EmptyPayload EXCEPT !.id = "u1", !.name = n] : n \in {"A", "B"}}
      [] kind = "comment" ->
            {[EmptyPayload EXCEPT !.id = "m1", !.taskId = "t1",
                                  !.timestamp = ts] :
                ts \in {NoTime, 1000, 2000}}

\* the kind's upsert called at instant now
UpsertAt(kind, payload, d, now) ==
    IF kind = "comment" THEN upsert_comment_from_payload(payload, d, now)
    ELSE Upsert(kind, payload, d)

\* history: the first non-null value each timestamp of task t1 took
FirstSet(first, d) ==
    [f \in DOMAIN first |->
        IF first[f] # NoTime THEN first[f]
        ELSE IF Has(d.tasks, "t1") THEN d.tasks["t1"][f] ELSE NoTime]

UpsertInit ==
    /\ store = <<>>
    /\ db \in {EmptyDb, SeededDb}
    /\ api = {}
    /\ run = Idle
    /\ applied = [i \in 1..MaxEvents |-> 0]
    /\ hist = [calls |-> 0, quiet |-> FALSE, prev |-> NoPrev, http |-> NoAnswer]
    /\ up = NoUpsert

\* the upsert and session.commit() (as in lines 656-698), r its outcome
Applied(kind, payload, again, r) ==
    /\ db' = r.db
    /\ up' = [clock |-> up.clock + 1,
              n |-> IF again THEN up.n ELSE up.n + 1,
              kind |-> kind, payload |-> payload, ok |-> ~Raised(r.exc),
              again |-> again,
              once |-> IF again THEN up.once ELSE r.db,
              before |-> db,
              first |-> FirstSet(up.first, r.db),
              fetched |-> <<>>,
              call |-> NoCall]
    /\ UNCHANGED <<store, api, run, applied, hist>>

ApplyUpsert(kind, payload) ==
    /\ up.n < MaxApply
    /\ Applied(kind, payload, FALSE,
               CommitPending(db, UpsertAt(kind, payload, db, up.clock)))

\* the same payload once more, right after a committed application
ApplyAgain ==
    /\ up.ok
    /\ ~up.again
    /\ Applied(up.kind, up.payload, TRUE,
               CommitPending(db, UpsertAt(up.kind, up.payload, db, up.clock)))

UpsertNext ==
    \/ \E kind \in UpsertKinds :
          \E payload \in UpsertPayloads(kind) : ApplyUpsert(kind, payload)
    \/ ApplyAgain

UpsertSpec == UpsertInit /\ [][UpsertNext]_vars

----------------------------------------------------------------------------
(* The sticker upsert on its own: two stickers whose payloads change from  *)
(* one application to the next (states added, dropped, dated or not).      *)
State(id, begin, end) == [id |-> id, name |-> "A", begin |-> begin, end |-> end]

StickerStateLists ==
    { <<>>,
      <<State("a", NoMs, NoMs)>>,
      <<State("a", 5000, NoMs)>>,
      <<State("b", 0, NoMs)>>,
      <<State("b", NoMs, 7000)>>,
      <<State(NULL, 5000, 7000)>>,
      <<State("a", NoMs, NoMs), State("b", NoMs, NoMs)>>,
      <<State("a", 5000, 7000), State("b", NoMs, NoMs)>> }

StickerPayloads ==
    { [EmptyPayload EXCEPT !.id = id, !.name = "A", !.states = states] :
        id \in {"s1", "s2"}, states \in StickerStateLists }

StickerInit ==
    /\ store = <<>>
    /\ db = EmptyDb
    /\ api = {}
    /\ run = Idle
    /\ applied = [i \in 1..MaxEvents |-> 0]
    /\ hist = [calls |-> 0, quiet |-> FALSE, prev |-> NoPrev, http |-> NoAnswer]
    /\ up = NoUpsert

StickerNext ==
    \/ \E payload \in StickerPayloads : ApplyUpsert("sticker", payload)
    \/ ApplyAgain

StickerSpec == StickerInit /\ [][StickerNext]_vars

----------------------------------------------------------------------------
(* The resolver on its own: called for any kind and id (kinds it knows and *)
(* kinds it does not) against a mirror that fills up call after call and a *)
(* source API that holds all, part or none of the chain.                   *)
ResolverInit ==
    /\ store = <<>>
    /\ db = EmptyDb
    /\ api \in ChainApiConfigs \cup UserApiConfigs
    /\ run = Idle
    /\ applied = [i \in 1..MaxEvents |-> 0]
    /\ hist = [calls |-> 0, quiet |-> FALSE, prev |-> NoPrev, http |-> NoAnswer]
    /\ up = NoUpsert

\* _fetch_and_create_missing_entity(entity_type, entity_id, ...)
Resolve(entity_type, entity_id) ==
    /\ up.n < MaxApply
    /\ db' = fetch_and_create_missing_entity(api, entity_type, entity_id, db).db
    /\ up' = [up EXCEPT
            !.n = @ + 1,
            !.kind = entity_type,
            !.payload = [EmptyPayload EXCEPT !.id = entity_id],
            !.ok = fetch_and_create_missing_entity(api, entity_type,
                                                   entity_id, db).ok,
            !.before = db,
            !.fetched = Fetches(api, entity_type, entity_id, db)]
    /\ UNCHANGED <<store, api, run, applied, hist>>

ResolverSpec ==
    ResolverInit /\
    [][\E entity_type \in {"task", "column", "board", "project", "user",
                           "sticker", "comment", "department", "unknown"},
          entity_id \in {"t1", "c1", "b1", "p1", "u1", "s1", "zz"} :
            Resolve(entity_type, entity_id)]_vars

----------------------------------------------------------------------------
(* The source-API client (core/client.py): one request call after the      *)
(* other, each attempt answered by a status, a timeout or a network error. *)
(* up.call is the call in hand: its loop index, the HTTP requests issued,  *)
(* their outcomes and the sleeps made before retries (seconds).  The       *)
(* pacing sleep of lines 100-107 precedes every attempt and is left out.   *)
MaxRetries == 2     \* largest settings.yougile_max_retries explored

\* _handle_response: returns for 2xx, raises the status's exception otherwise
handle_response(status) ==
    IF 200 <= status /\ status < 300 THEN [raised |-> FALSE, error |-> "none"]
    ELSE [raised |-> TRUE,
          error |-> CASE status = 401 -> "AuthenticationError"
                      [] status = 403 -> "AuthorizationError"
                      [] status = 404 -> "NotFoundError"
                      [] status = 429 -> "RateLimitError"
                      [] OTHER -> "YouGileError"]

\* variant of Retryable that also retries server errors
Retryable_ServerErrors(outcome) ==
    \/ outcome.kind \in {"timeout", "network"}
    \/ outcome.kind = "status" /\ (outcome.status = 429 \/ outcome.status >= 500)

\* the outcomes after which the loop goes on: status 429 (line 120),
\* httpx.TimeoutException (148), httpx.NetworkError (156)
Retryable(outcome) ==
    \/ outcome.kind \in {"timeout", "network"}
    \/ outcome.kind = "status" /\ outcome.status = 429

\* request() up to the loop (lines 73-97); initialized is "the client was
\* entered with async with"
ClientCall(initialized, max_retries) ==
    /\ up.call.pc \in {"idle", "returned", "raised"}
    /\ up' = [up EXCEPT !.call =
            IF ~initialized
            THEN [NoCall EXCEPT !.pc = "raised", !.max_retries = max_retries,
                                !.error = "RuntimeError"]
            ELSE IF max_retries + 1 <= 0
            THEN [NoCall EXCEPT !.pc = "raised", !.max_retries = max_retries,
                                !.error = "YouGileError"]
            ELSE [NoCall EXCEPT !.pc = "attempt", !.max_retries = max_retries]]
    /\ UNCHANGED <<store, db, api, run, applied, hist>>

\* one pass of the loop (lines 98-162): the HTTP request and what follows
\* its outcome
Attempt(outcome) ==
    /\ up.call.pc = "attempt"
    /\ up' = [up EXCEPT !.call =
            LET c == [up.call EXCEPT !.attempts = @ + 1,
                                     !.outcomes = Append(@, outcome)]
            IN  IF Retryable(outcome)
                THEN IF c.attempt = c.max_retries
                     THEN [c EXCEPT
                            !.pc = "raised",
                            !.error = IF outcome.kind = "status"
                                      THEN handle_response(outcome.status).error
                                      ELSE "YouGileError"]
                     ELSE [c EXCEPT
                            !.attempt = @ + 1,
                            !.sleeps = Append(@,
                                IF outcome.kind = "status"
                                THEN IF outcome.retry_after > 30
                                     THEN outcome.retry_after ELSE 30
                                ELSE 2 ^ c.attempt)]
                ELSE IF outcome.kind = "status"
                        /\ ~handle_response(outcome.status).raised
                THEN [c EXCEPT !.pc = "returned"]
                ELSE [c EXCEPT
                        !.pc = "raised",
                        !.error = IF outcome.kind = "status"
                                  THEN handle_response(outcome.status).error
                                  ELSE outcome.kind]]
    /\ UNCHANGED <<store, db, api, run, applied, hist>>

ClientSpec ==
    Init /\
    [][\/ \E initialized \in BOOLEAN, max_retries \in -1..MaxRetries :
            ClientCall(initialized, max_retries)
       \/ \E status \in {200, 204, 301, 400, 401, 403, 404, 429, 500, 503},
             retry_after \in {0, 60} :
            Attempt([kind |-> "status", status |-> status,
                     retry_after |-> retry_after])
       \/ \E kind \in {"timeout", "network", "protocol"} :
            Attempt([kind |-> kind, status |-> 0, retry_after |-> 0])]_vars

----------------------------------------------------------------------------
(* Properties.                                                             *)
InRun == run.pc \in {"loop", "done"}

\* the event the latest pass of the loop handled: as loaded, and as left
HandledOne == InRun /\ run.i > 1
LastLoaded == run.loaded[run.i - 1]
LastEvent == run.events[run.i - 1]

IsTaskEvent(event) ==
    Handler(entity_prefix(EventType(event), EntityType(event))) = "task"

\* the event's entity kind is one the dispatch chain has an upsert for
Recognized(event) ==
    Handler(entity_prefix(EventType(event), EntityType(event))) # "none"

\* C1: an exception raised while one selected event is processed never
\* aborts the run: when catch_up returns, every event it selected has been
\* examined, and every event that failed is stored with processed = false,
\* error = the exception's text and retry_count one more than it was loaded
\* with.
C1_FailureDoesNotAbortRun ==
    run.pc = "done" =>
        /\ run.examined_count = Len(run.loaded)
        /\ \A k \in 1..Len(run.errors) :
              \E j \in 1..Len(run.loaded) :
                 /\ run.loaded[j].id = run.errors[k].event_id
                 /\ run.errors[k].error # NULL
                 /\ store[run.loaded[j].id].processed = FALSE
                 /\ store[run.loaded[j].id].error = run.errors[k].error
                 /\ store[run.loaded[j].id].retry_count =
                        run.loaded[j].retry_count + 1

\* C1 witness: a run returned in which the first of two selected events
\* failed and the second was still examined
C1_Witness ==
    /\ run.pc = "done"
    /\ Len(run.loaded) = 2
    /\ run.examined_count = 2
    /\ Len(run.errors) = 1
    /\ run.errors[1].event_id = run.loaded[1].id
    /\ store[run.loaded[1].id].retry_count = 1

\* C2: an event of a recognized kind that carries entity data has
\* processed = true only if an upsert of it was committed to the local
\* mirror, whatever the parameters of catch_up (no local DB URL included)
\* and for process_single_event.
C2_ProcessedOnlyIfApplied ==
    \A i \in 1..Len(store) :
        (/\ store[i].processed
         /\ Recognized(store[i])
         /\ Truthy(store[i].payload.payload)) => applied[i] >= 1

\* C3: catch_up handles the selected events in received_at ascending order,
\* and events with equal received_at in ascending id order.
C3_ReplayOrderTiesById ==
    InRun =>
        \A j, k \in 1..Len(run.loaded) :
            j < k =>
                \/ run.loaded[j].received_at < run.loaded[k].received_at
                \/ /\ run.loaded[j].received_at = run.loaded[k].received_at
                   /\ run.loaded[j].id < run.loaded[k].id

\* the latest pass handled a task event whose columnId names a column that
\* was absent from the local mirror, with a local session
MissingColumnCase ==
    /\ HandledOne
    /\ run.local
    /\ IsTaskEvent(LastLoaded)
    /\ LastLoaded.payload.payload.id # NULL
    /\ LastLoaded.payload.payload.columnId # NULL
    /\ ~Has(run.last.db.columns, LastLoaded.payload.payload.columnId)

\* C4: a task event whose columnId is absent locally, with a source API
\* that returns the column, its board and its project, is handled by a run
\* with mark_processed = true so that project, board, column and task are
\* all present locally, the event is marked processed (and stored so when
\* the run returns) and fk_resolved has grown by 1.
C4_MissingChainIsBackfilled ==
    (/\ MissingColumnCase
     /\ run.mark_processed
     /\ {"column", "board", "project"} \subseteq api) =>
        /\ Has(db.projects, ApiData("board").projectId)
        /\ Has(db.boards, ApiData("column").boardId)
        /\ Has(db.columns, LastLoaded.payload.payload.columnId)
        /\ Has(db.tasks, LastLoaded.payload.payload.id)
        /\ db.tasks[LastLoaded.payload.payload.id].column_id =
                LastLoaded.payload.payload.columnId
        /\ LastEvent.processed
        /\ run.last.fk_resolved = 1
        /\ run.fk_resolved_count >= 1
        /\ run.pc = "done" => store[LastLoaded.id].processed

\* C4 witness: the run returned after backfilling an entirely absent chain
C4_Witness ==
    /\ MissingColumnCase
    /\ run.mark_processed
    /\ run.pc = "done"
    /\ run.last.db = EmptyDb
    /\ DOMAIN db.projects = {"p1"}
    /\ DOMAIN db.boards = {"b1"}
    /\ DOMAIN db.columns = {"c1"}
    /\ DOMAIN db.tasks = {"t1"}
    /\ store[LastLoaded.id].processed
    /\ run.fk_resolved_count = 1

\* C5: a task event whose columnId is absent locally, with a source API
\* that has no such column, is left processed = false with a non-empty
\* error and retry_count one more than before (1 on the first run), no task
\* row is written for it, and the run goes on to the following events.
C5_UnresolvableColumn ==
    (MissingColumnCase /\ "column" \notin api) =>
        /\ LastEvent.processed = FALSE
        /\ LastEvent.error # NULL
        /\ LastEvent.retry_count = LastLoaded.retry_count + 1
        /\ db.tasks = run.last.db.tasks
        /\ run.pc = "done" =>
              /\ run.examined_count = Len(run.loaded)
              /\ store[LastLoaded.id].processed = FALSE
              /\ store[LastLoaded.id].error # NULL
              /\ store[LastLoaded.id].retry_count = LastLoaded.retry_count + 1

\* C5 witness: a first run returned; its first event had the unresolvable
\* column, is stored with retry_count 1, and the event after it was handled
C5_Witness ==
    /\ run.pc = "done"
    /\ "column" \notin api
    /\ run.local
    /\ Len(run.loaded) = 2
    /\ run.examined_count = 2
    /\ IsTaskEvent(run.loaded[1])
    /\ run.loaded[1].payload.payload.columnId = "c1"
    /\ run.loaded[1].payload.payload.id = "t1"
    /\ store[run.loaded[1].id].retry_count = 1
    /\ store[run.loaded[1].id].error # NULL
    /\ ~store[run.loaded[1].id].processed
    /\ run.event_summary = <<run.loaded[2].id>>
    /\ ~Has(db.tasks, "t1")

\* C6: for each event of a run the resolver is invoked at most once and the
\* upsert attempted at most twice; when the retry after a successful
\* resolution fails, the event is left processed = false with the error
\* recorded and retry_count one more, and fk_resolved is not incremented.
C6_OneResolveOneRetry ==
    HandledOne =>
        /\ run.last.resolver <= 1
        /\ run.last.upserts <= 2
        /\ run.last.upserts = 2 => run.last.resolver = 1
        /\ (run.last.upserts = 2 /\ run.last.failed) =>
              /\ LastEvent.processed = FALSE
              /\ LastEvent.error # NULL
              /\ LastEvent.retry_count = LastLoaded.retry_count + 1
              /\ run.last.fk_resolved = 0
              /\ run.errors[Len(run.errors)].event_id = LastLoaded.id
              /\ run.pc = "done" =>
                    /\ store[LastLoaded.id].processed = FALSE
                    /\ store[LastLoaded.id].error = LastEvent.error

\* C6 witness: a comment whose task the resolver created and whose retry
\* then failed on the absent author
C6_Witness ==
    /\ HandledOne
    /\ run.pc = "done"
    /\ run.last.resolver = 1
    /\ run.last.upserts = 2
    /\ run.last.failed
    /\ Has(db.tasks, "t1")
    /\ ~Has(run.last.db.tasks, "t1")
    /\ store[LastLoaded.id].retry_count = 1

\* C7: a run with mark_processed = false, however many came before it,
\* leaves processed (false) and processed_at (null) of every event as they
\* were, in the session and in the store, and still commits the events'
\* entity upserts to the local mirror.
C7_DryRunKeepsProcessedAndUpserts ==
    (InRun /\ ~run.mark_processed) =>
        /\ \A j \in 1..Len(run.events) :
              /\ run.events[j].processed = FALSE
              /\ run.events[j].processed_at = NoTime
        /\ \A i \in 1..Len(run.store0) :
              /\ store[i].processed = run.store0[i].processed
              /\ store[i].processed_at = run.store0[i].processed_at
        /\ run.processed_count = 0
        /\ (/\ HandledOne
            /\ run.local
            /\ ~run.last.failed
            /\ IsTaskEvent(LastLoaded)
            /\ Truthy(LastLoaded.payload.payload)) =>
              /\ Has(db.tasks, LastLoaded.payload.payload.id)
              /\ db.tasks[LastLoaded.payload.payload.id].column_id =
                    LastLoaded.payload.payload.columnId
              /\ applied[LastLoaded.id] >= 1

\* C7 witness: a second dry run returned; the event's upsert was committed
\* by both runs and the event is still unprocessed
C7_Witness ==
    /\ run.pc = "done"
    /\ ~run.mark_processed
    /\ hist.calls = 2
    /\ Len(run.loaded) >= 1
    /\ applied[run.loaded[1].id] = 2
    /\ store[run.loaded[1].id].processed = FALSE
    /\ store[run.loaded[1].id].processed_at = NoTime

\* C8: a run with mark_processed = false changes no field of any
\* event-store row, also for events whose upsert fails during the run.
C8_DryRunTouchesNoEventRow ==
    (InRun /\ ~run.mark_processed) =>
        \A i \in 1..Len(run.store0) : store[i] = run.store0[i]

\* the run examined nothing, applied nothing and left the rows it could
\* see as they were
NoOpRun ==
    /\ Len(run.loaded) = 0
    /\ run.examined_count = 0
    /\ run.i = 1
    /\ run.event_summary = <<>>
    /\ run.errors = <<>>
    /\ \A i \in 1..Len(run.store0) : store[i] = run.store0[i]

\* C9 as stated: after a run with mark_processed = true in which no event
\* failed, an immediately following run with no new events is a no-op.
C9_FollowingRunIsNoOp ==
    (InRun /\ run.follows) => NoOpRun

\* C9 amended: ... an immediately following run with no new events whose
\* since bound admits no event that the first run's bound excluded (the
\* first run had no since, or the second's since is not earlier) is a no-op.
C9_FollowingRunSameBoundIsNoOp ==
    (/\ InRun
     /\ run.follows
     /\ \/ run.prev_since = NoTime
        \/ run.since # NoTime /\ run.since >= run.prev_since) => NoOpRun

\* C9 witness: such a following run returned, over a store that holds
\* events the first run processed
C9_Witness ==
    /\ run.pc = "done"
    /\ run.follows
    /\ run.prev_since = NoTime
    /\ Len(run.store0) = 2
    /\ \A i \in 1..Len(run.store0) : store[i].processed

\* C10: an event that failed in a run is stored processed = false when the
\* run returns, and every run selects exactly the unprocessed events its
\* since bound admits: neither retry_count nor error keeps an event out.
C10_FailedEventsAreReselected ==
    /\ InRun =>
          {run.loaded[j].id : j \in 1..Len(run.loaded)} =
              {i \in 1..Len(run.store0) :
                  /\ ~run.store0[i].processed
                  /\ \/ run.since = NoTime
                     \/ run.store0[i].received_at >= run.since}
    /\ run.pc = "done" =>
          \A k \in 1..Len(run.errors) :
              /\ ~store[run.errors[k].event_id].processed
              /\ store[run.errors[k].event_id].retry_count >= 1

\* C10 witness: a later run selected an event that had already failed
C10_Witness ==
    /\ InRun
    /\ \E j \in 1..Len(run.loaded) :
          /\ run.loaded[j].retry_count >= 1
          /\ run.loaded[j].error # NULL
          /\ ~run.loaded[j].processed

\* C14: catch_up and process_single_event never insert or delete an
\* event-store row and never change a field of a row other than processed,
\* processed_at, retry_count and error; rows are only added, by the receiver.
C14_EventRowsImmutable ==
    [][/\ Len(store') >= Len(store)
       /\ \A i \in 1..Len(store) :
             \A f \in DOMAIN store[i] \ StatusFields :
                store'[i][f] = store[i][f]
       /\ (run' # run \/ hist'.calls # hist.calls \/ db' # db) =>
             /\ Len(store') = Len(store)
             /\ \A i \in 1..Len(store) : DOMAIN store'[i] = DOMAIN store[i]]_vars

\* C14 witness: a run returned having written status fields of a row
C14_Witness ==
    /\ run.pc = "done"
    /\ Len(run.loaded) >= 1
    /\ \E i \in 1..Len(run.store0) :
          /\ store[i] # run.store0[i]
          /\ \A f \in DOMAIN store[i] \ StatusFields :
                store[i][f] = run.store0[i][f]

\* C16: at every event boundary inside a run, the status updates of the
\* events handled so far (processed/processed_at, or error/retry_count) are
\* already committed to the event store.
C16_StatusCommittedPerEvent ==
    run.pc = "loop" =>
        \A j \in 1..(run.i - 1) :
            \A f \in StatusFields :
                store[run.events[j].id][f] = run.events[j][f]

\* C20: an event whose kind prefix has no upsert is examined, writes no
\* entity table, is not an error, and is marked processed when
\* mark_processed = true.
C20_UnknownPrefixIsSkipped ==
    (HandledOne /\ ~Recognized(LastLoaded)) =>
        /\ run.examined_count = run.i - 1
        /\ db = run.last.db
        /\ run.last.upserts = 0
        /\ ~run.last.failed
        /\ \A k \in 1..Len(run.errors) :
              run.errors[k].event_id # LastLoaded.id
        /\ LastEvent.error = LastLoaded.error
        /\ LastEvent.retry_count = LastLoaded.retry_count
        /\ run.mark_processed =>
              /\ LastEvent.processed
              /\ LastEvent.processed_at = Now
              /\ run.pc = "done" => store[LastLoaded.id].processed

\* C20 witness: a run with a local mirror returned after a group_chat event
C20_Witness ==
    /\ run.pc = "done"
    /\ run.local
    /\ run.mark_processed
    /\ Len(run.loaded) >= 1
    /\ LastLoaded.event_type = GroupChatCreated
    /\ Truthy(LastLoaded.payload.payload)
    /\ store[LastLoaded.id].processed
    /\ db = run.last.db

\* the table an entity kind is stored in, and back
TableOf(kind) ==
    CASE kind = "task" -> "tasks"
      [] kind = "project" -> "projects"
      [] kind = "board" -> "boards"
      [] kind = "column" -> "columns"
      [] kind = "user" -> "users"
      [] kind = "comment" -> "comments"

KindOf(table) == CHOOSE kind \in {"task", "project", "board", "column",
                                  "user", "comment"} : TableOf(kind) = table

\* the row (table, id) is the same in mirror states d and e
SameRow(d, e, table, id) ==
    /\ Has(d[table], id) = Has(e[table], id)
    /\ Has(d[table], id) => d[table][id] = e[table][id]

\* the latest pass of the loop was an event that failed
FailedOne == HandledOne /\ run.last.failed

\* C15 as stated (first run over an empty mirror, so that every row was
\* committed for an earlier event of the run): when event N fails, its own
\* entity write is rolled back and every row committed before it is unchanged.
C15_EarlierRowsUnchanged ==
    (FailedOne /\ hist.calls = 1 /\ run.pc = "loop") =>
        \A table \in Tables :
            \A id \in DOMAIN run.last.db[table] :
                SameRow(db, run.last.db, table, id)

\* C15 amended: when event N fails, its own entity write is rolled back and
\* no row committed before it is removed or rolled back; such a row changes
\* only where event N's resolver fetched that entity from the source API
\* again and committed it before the failure.
C15_EarlierRowsKeptOrRefetched ==
    FailedOne =>
        /\ \A table \in Tables :
              \A id \in DOMAIN run.last.db[table] :
                 /\ Has(db[table], id)
                 /\ db[table][id] # run.last.db[table][id] =>
                       /\ run.last.resolver = 1
                       /\ KindOf(table) \in api
                       /\ id = ApiData(KindOf(table)).id
                       /\ db[table][id].title = ApiData(KindOf(table)).title
        /\ (Recognized(LastLoaded) /\ LastLoaded.payload.payload.id # NULL) =>
              SameRow(db, run.last.db,
                      TableOf(Handler(entity_prefix(EventType(LastLoaded),
                                                    EntityType(LastLoaded)))),
                      LastLoaded.payload.payload.id)

\* C15 witness: the second event of a run failed after its resolver had
\* committed rows, and the first event's row is still there
C15_Witness ==
    /\ FailedOne
    /\ run.i = 3
    /\ run.last.resolver = 1
    /\ db # run.last.db
    /\ applied[run.loaded[1].id] >= 1
    /\ \E id \in DOMAIN run.last.db.tasks : Has(db.tasks, id)

\* the resolver call of the latest pass of the loop, recomputed from the
\* mirror the pass started from: its target and its return
ResolverRan == HandledOne /\ run.last.resolver = 1

ResolverTarget == TargetOf(LastLoaded, run.last.db)

ResolverReturn ==
    fetch_and_create_missing_entity(api, ResolverTarget.fk_field,
                                    ResolverTarget.missing_id, run.last.db)

\* presence of an entity with its ancestors along task -> column -> board
\* -> project
ProjectPresent(d, id) == Has(d.projects, id)

BoardPresent(d, id) ==
    Has(d.boards, id) /\ ProjectPresent(d, d.boards[id].project_id)

ColumnPresent(d, id) ==
    Has(d.columns, id) /\ BoardPresent(d, d.columns[id].board_id)

TaskPresent(d, id) ==
    /\ Has(d.tasks, id)
    /\ d.tasks[id].column_id # NULL => ColumnPresent(d, d.tasks[id].column_id)

ChainPresent(d, kind, id) ==
    CASE kind = "task" -> TaskPresent(d, id)
      [] kind = "column" -> ColumnPresent(d, id)
      [] kind = "board" -> BoardPresent(d, id)
      [] kind = "project" -> ProjectPresent(d, id)
      [] OTHER -> Has(d[TableOf(kind)], id)

\* C17: when the resolver returns True the entity it was asked for is in
\* the mirror with all its ancestors; when the source API has no such
\* entity it returns False and the entity's row is as it was.
C17_ResolverTrueMeansChainPresent ==
    ResolverRan =>
        /\ ResolverReturn.ok =>
              /\ ChainPresent(ResolverReturn.db, ResolverTarget.fk_field,
                              ResolverTarget.missing_id)
              /\ run.last.upserts = 2
        /\ ~Truthy(ApiGet(api, ResolverTarget.fk_field,
                          ResolverTarget.missing_id)) =>
              /\ ~ResolverReturn.ok
              /\ ResolverReturn.db = run.last.db
              /\ SameRow(db, run.last.db, TableOf(ResolverTarget.fk_field),
                         ResolverTarget.missing_id)

\* C17 witness: the resolver returned True for a column and left column,
\* board and project in the mirror
C17_Witness ==
    /\ ResolverRan
    /\ ResolverTarget.fk_field = "column"
    /\ ResolverReturn.ok
    /\ ~Has(run.last.db.columns, ResolverTarget.missing_id)
    /\ ColumnPresent(db, ResolverTarget.missing_id)

\* the resolver was asked for a column (board) the source API returns,
\* whose parent board (project) is absent locally and cannot be fetched
ParentFetchFails ==
    /\ ResolverRan
    /\ ResolverTarget.fk_field \in {"column", "board"}
    /\ Truthy(ApiGet(api, ResolverTarget.fk_field, ResolverTarget.missing_id))
    /\ LET data == ApiGet(api, ResolverTarget.fk_field,
                          ResolverTarget.missing_id)
           parent == IF ResolverTarget.fk_field = "column"
                     THEN [kind |-> "board", id |-> data.boardId]
                     ELSE [kind |-> "project", id |-> data.projectId]
       IN  /\ ~Has(run.last.db[TableOf(parent.kind)], parent.id)
           /\ ~fetch_and_create_missing_entity(api, parent.kind, parent.id,
                                               run.last.db).ok

\* C18: in that case the resolver returns False, the descendant stays
\* absent, and the event is marked failed after a single upsert attempt.
C18_ParentFailureAbandonsDescendant ==
    ParentFetchFails =>
        /\ ~ResolverReturn.ok
        /\ ~Has(ResolverReturn.db[TableOf(ResolverTarget.fk_field)],
                ResolverTarget.missing_id)
        /\ ~Has(db[TableOf(ResolverTarget.fk_field)],
                ResolverTarget.missing_id)
        /\ run.last.failed
        /\ run.last.upserts = 1
        /\ run.last.fk_resolved = 0
        /\ LastEvent.processed = FALSE
        /\ LastEvent.error # NULL
        /\ LastEvent.retry_count = LastLoaded.retry_count + 1

\* C18 witness: a run returned after such an event; the board's own parent
\* was not fetchable either
C18_Witness ==
    /\ ParentFetchFails
    /\ run.pc = "done"
    /\ api = {"column", "board"}
    /\ ~Has(db.columns, ResolverTarget.missing_id)
    /\ store[LastLoaded.id].retry_count = 1

\* C12: once created_at, completed_at or archived_at of a task is non-null
\* it keeps the value it was first set to, whatever task payloads follow.
C12_TaskTimestampsWriteOnce ==
    \A f \in DOMAIN up.first :
        up.first[f] # NoTime =>
            /\ Has(db.tasks, "t1")
            /\ db.tasks["t1"][f] = up.first[f]

\* C12 witness: a task payload carrying another created value, and one
\* omitting it, were applied after the value was set
C12_Witness ==
    /\ up.kind = "task"
    /\ up.ok
    /\ up.n = 3
    /\ up.first.created_at # NoTime
    /\ up.first.archived_at # NoTime
    /\ to_dt(OrT(up.payload.createdAt, up.payload.timestamp))
            \notin {NoTime, up.first.created_at}
    /\ up.payload.archivedTimestamp = NoTime
    /\ db.tasks["t1"].created_at = up.first.created_at

\* C13: for every kind and every payload with an id, the upsert applied
\* twice in succession leaves the mirror as the first application left it.
C13_UpsertTwiceIsOnce ==
    up.again => db = up.once

\* C19: within one run the resolver fetches the company-wide user list at
\* most once, however many missing users it is asked to resolve.
C19_UserListFetchedOncePerRun ==
    InRun => run.users_fetched <= 1

\* event i is stored and its processing would go through against the
\* mirror and the source API as they are
CanSucceed(i) ==
    /\ i \in 1..Len(store)
    /\ \/ ~Truthy(store[i].payload.payload)
       \/ ~Raised(ProcessEntity(store[i], api, db).exc)

\* a run with mark_processed = true is under way
Running == run.pc = "loop" /\ run.mark_processed

\* ... and event i was in the store, inside the run's since bound, when
\* the run selected
RunAdmits(i) ==
    /\ Running
    /\ i \in 1..Len(run.store0)
    /\ run.since = NoTime \/ run.store0[i].received_at >= run.since

Processed(i) == i \in 1..Len(store) /\ store[i].processed

TextBefore(seq, seps) ==
    LET at == {i \in 1..Len(seq) : seq[i] \in seps}
    IN  IF at = {} THEN seq
        ELSE SubSeq(seq, 1, (CHOOSE i \in at : \A j \in at : i <= j) - 1)

\* the kind tag that names the event's kind when seps are the separators
KindTag(event, seps) ==
    IF \E i \in 1..Len(EventType(event)) : EventType(event)[i] \in seps
    THEN TextBefore(EventType(event), seps)
    ELSE EntityType(event)

\* the latest pass of catch_up's loop dispatched on an entity prefix
BatchDispatched ==
    HandledOne /\ run.local /\ Truthy(LastLoaded.payload.payload)

\* the process_single_event call just made dispatched on an entity prefix
SingleDispatched == run.pc = "single" /\ run.single.dispatched

SingleLoaded == run.store0[run.single.event_id]

DispatchedOn(event, seps) ==
    /\ run.last.prefix = KindTag(event, seps)
    /\ run.last.kind = Handler(KindTag(event, seps))

\* C21 as stated: in catch_up and in process_single_event the kind used for
\* dispatch is the text of event_type before its first "-" or "_", and the
\* entity_type hint is used only when event_type has neither.
C21_KindIsTextBeforeFirstSeparator ==
    /\ BatchDispatched => DispatchedOn(LastLoaded, {"-", "_"})
    /\ SingleDispatched => DispatchedOn(SingleLoaded, {"-", "_"})

\* C21 amended: in catch_up and in process_single_event the kind used for
\* dispatch is the text of event_type before its first "-" ("_" is part of
\* the kind, as in chat_message), and the entity_type hint is used exactly
\* when event_type contains no "-".
C21_KindIsTextBeforeFirstDash ==
    /\ BatchDispatched => DispatchedOn(LastLoaded, {"-"})
    /\ SingleDispatched => DispatchedOn(SingleLoaded, {"-"})

\* C21 witness: process_single_event dispatched an event whose type has a
\* "_" and no "-" on its entity_type hint
C21_Witness ==
    /\ SingleDispatched
    /\ SingleLoaded.event_type = <<"chat", "_", "message">>
    /\ SingleLoaded.entity_type = <<"task">>
    /\ run.last.kind = "task"

\* a sticker payload was just upserted and committed
StickerUpserted == up.kind = "sticker" /\ up.ok

\* the payload's states that have an id, as rows of the sticker
PayloadStates == StateIds(up.payload.states)

\* the sticker is in stickers, and every payload state with an id is a row
\* of states carrying the sticker's id
StoredIn(stickers, states) ==
    /\ Has(stickers, up.payload.id)
    /\ \A k \in PayloadStates :
          Has(states, k) /\ states[k].sticker_id = up.payload.id

\* the tables were left as they were before the upsert
Untouched(stickers, states, stickers0, states0) ==
    stickers = stickers0 /\ states = states0

StoredAsSprint ==
    /\ StoredIn(db.sprint_stickers, db.sprint_states)
    /\ Untouched(db.string_stickers, db.string_states,
                 up.before.string_stickers, up.before.string_states)

StoredAsString ==
    /\ StoredIn(db.string_stickers, db.string_states)
    /\ Untouched(db.sprint_stickers, db.sprint_states,
                 up.before.sprint_stickers, up.before.sprint_states)

\* C27: a sticker payload in which some state has a non-null begin or end
\* is stored as a SprintSticker with SprintState rows; one whose states all
\* have null begin and end, or that has no states, is stored as a
\* StringSticker with StringState rows.
C27_SubtypeByNonNullDates ==
    StickerUpserted =>
        IF \E i \in 1..Len(up.payload.states) :
              \/ up.payload.states[i].begin # NoMs
              \/ up.payload.states[i].end # NoMs
        THEN StoredAsSprint
        ELSE StoredAsString

\* the state rows that carry sticker id in the table
StatesOf(tbl, id) == {k \in DOMAIN tbl : tbl[k].sticker_id = id}

\* C28: after a sticker upsert the child-state rows carrying that sticker
\* id, over the sprint-state and the string-state table together, are
\* exactly the payload's states that have an id.
C28_ChildStatesFullyReplaced ==
    StickerUpserted =>
        StatesOf(db.sprint_states, up.payload.id)
            \cup StatesOf(db.string_states, up.payload.id) = PayloadStates

\* events of the run whose pass of the loop ended in the except branch
FailedSoFar ==
    {j \in 1..(run.i - 1) : run.events[j].retry_count # run.loaded[j].retry_count}

\* C24: a failure of the users or stickers prefetch never aborts catch_up:
\* the run goes into its loop, the summary's errors count the failed events
\* only, an event that has not been examined yet is as it was loaded, and
\* when the run returns every selected event has been examined.
C24_PrefetchFailureIsSwallowed ==
    (run.pc # "idle" /\ run.pc # "single" /\ run.prefetch_failed) =>
        /\ InRun
        /\ Len(run.errors) = Cardinality(FailedSoFar)
        /\ \A j \in run.i..Len(run.events) : run.events[j] = run.loaded[j]
        /\ run.pc = "done" =>
              /\ run.examined_count = Len(run.loaded)
              /\ Len(run.loaded) =
                    Cardinality(Selected(run.store0, run.since))

\* C24 witness: a run whose prefetch failed has returned, and the resolver
\* fetched the user its last event was missing
C24_Witness ==
    /\ run.prefetch_failed
    /\ run.pc = "done"
    /\ HandledOne
    /\ run.last.resolver = 1
    /\ run.last.fk_resolved = 1
    /\ Has(db.users, "u1")
    /\ ~Has(run.last.db.users, "u1")

\* the exception of the event's first upsert and commit
FirstError(event, d) ==
    UpsertCommit(Handler(entity_prefix(EventType(event), EntityType(event))),
                 event.payload.payload, d).exc

\* the author id the comment upsert writes for the payload
AuthorWritten(payload) ==
    upsert_comment_from_payload(payload, EmptyDb, Now).db.comments[payload.id].author_id

\* the latest pass handled a comment event whose first upsert failed on the
\* author's foreign key (the task's is checked first, so the task is there)
\* while the source API's user list held the author
AuthorMissingCase ==
    /\ BatchDispatched
    /\ run.last.kind = "comment"
    /\ LastLoaded.payload.payload.id # NULL
    /\ FirstError(LastLoaded, run.last.db).fk
    /\ FirstError(LastLoaded, run.last.db).msg =
          ForeignKeyViolation("comments", "author_id", {}).msg
    /\ UsersError \notin run.last.api
    /\ \E u \in get_users(run.last.api) :
          u.id = AuthorWritten(LastLoaded.payload.payload)

\* C29: in that case catch_up invokes the resolver for kind user with the
\* author id the upsert wrote, retries the upsert, and the event ends
\* processed = true.
C29_MissingAuthorIsResolved ==
    AuthorMissingCase =>
        /\ run.last.resolver = 1
        /\ TargetOf(LastLoaded, run.last.db) =
              [fk_field |-> "user",
               missing_id |-> AuthorWritten(LastLoaded.payload.payload)]
        /\ run.last.upserts = 2
        /\ ~run.last.failed
        /\ (run.pc = "done" /\ run.mark_processed) =>
              store[LastLoaded.id].processed

\* C25: process_single_event never invokes the resolver and never retries:
\* when the event's upsert or its commit fails (a foreign-key violation
\* included) the mirror is left as it was, the event is stored with
\* processed = false, error = the exception's text and retry_count one
\* more, and the call returns False; when it succeeds the event is stored
\* processed and the call returns True.
C25_SingleEventFailsWithoutResolver ==
    SingleDispatched =>
        IF Raised(FirstError(SingleLoaded, run.last.db))
        THEN /\ db = run.last.db
             /\ store[SingleLoaded.id] =
                    [SingleLoaded EXCEPT
                        !.error = FirstError(SingleLoaded, run.last.db).msg,
                        !.retry_count = @ + 1]
             /\ ~store[SingleLoaded.id].processed
             /\ ~run.single.ret
        ELSE /\ store[SingleLoaded.id].processed
             /\ store[SingleLoaded.id].retry_count = SingleLoaded.retry_count
             /\ run.single.ret

\* C25 witness: process_single_event failed on a task whose column is
\* missing although the source API holds the column's whole chain
C25_Witness ==
    /\ SingleDispatched
    /\ FirstError(SingleLoaded, run.last.db).fk
    /\ api = FullApi
    /\ run.last.kind = "task"
    /\ ~run.single.ret
    /\ store[SingleLoaded.id].retry_count = 1
    /\ ~Has(db.columns, "c1")

HandledKinds ==
    {"task", "project", "comment", "sticker", "board", "column", "user",
     "department"}

\* the name the kind's missing-id error carries
KindName(kind) ==
    CASE kind = "task" -> "Task"
      [] kind = "project" -> "Project"
      [] kind = "comment" -> "Comment"
      [] kind = "sticker" -> "Sticker"
      [] kind = "board" -> "Board"
      [] kind = "column" -> "Column"
      [] kind = "user" -> "User"
      [] kind = "department" -> "Department"

MissingIdText(kind) == KindName(kind) \o " payload missing 'id' field"

\* the latest pass of the loop dispatched a non-empty payload without id to
\* the upsert of some kind
MissingIdCase ==
    /\ BatchDispatched
    /\ run.last.kind \in HandledKinds
    /\ LastLoaded.payload.payload.id = NULL

\* C26: for every entity kind, the upsert of a non-empty payload without id
\* fails with the kind's missing-id error and writes no row; in catch_up
\* such an event is recorded as failed (error set, retry_count + 1,
\* processed = false) with one upsert attempt and no resolver call, and the
\* run goes on to examine every selected event.
C26_MissingIdFailsWithoutRetry ==
    /\ \A kind \in HandledKinds : \A p \in DispatchPayloads :
          p.id = NULL =>
              /\ Upsert(kind, p, db).exc.cls = "ValueError"
              /\ Upsert(kind, p, db).exc.msg = MissingIdText(kind)
              /\ Upsert(kind, p, db).db = db
    /\ MissingIdCase =>
          /\ run.last.failed
          /\ db = run.last.db
          /\ run.last.resolver = 0
          /\ run.last.upserts = 1
          /\ LastEvent = [LastLoaded EXCEPT
                            !.error = MissingIdText(run.last.kind),
                            !.retry_count = @ + 1]
          /\ ~LastEvent.processed
    /\ (run.pc = "done" /\ run.local) =>
          /\ run.examined_count = Len(run.loaded)
          /\ \A j \in 1..Len(run.loaded) :
                (/\ Truthy(run.loaded[j].payload.payload)
                 /\ run.loaded[j].payload.payload.id = NULL
                 /\ Recognized(run.loaded[j])) =>
                    store[run.loaded[j].id] =
                        [run.loaded[j] EXCEPT
                            !.error = MissingIdText(Handler(entity_prefix(
                                EventType(run.loaded[j]),
                                EntityType(run.loaded[j])))),
                            !.retry_count = @ + 1]

\* C26 witness: a run has returned whose first event, a department payload
\* without id, failed and whose second event was applied
C26_Witness ==
    /\ run.pc = "done"
    /\ run.local
    /\ Len(run.loaded) = 2
    /\ Handler(entity_prefix(EventType(run.loaded[1]),
                             EntityType(run.loaded[1]))) = "department"
    /\ run.loaded[1].payload.payload.id = NULL
    /\ store[1].retry_count = 1
    /\ store[1].error = "Department payload missing 'id' field"
    /\ run.mark_processed
    /\ store[2].processed
    /\ Has(db.tasks, "t1")

\* ids of the run's events whose pass ended in the except branch
FailedIds == {run.loaded[j].id : j \in FailedSoFar}

\* ids of all the run's events, in processing order
LoadedIds == [j \in 1..Len(run.loaded) |-> run.loaded[j].id]

NotFailed(id) == id \notin FailedIds

\* C22: catch_up's result reports examined = the number of events
\* selected, errors = the number of entries of error_details, which has
\* exactly one (event_id, error) entry per failed event, and an
\* event_summary that is the first 10 (or all, if fewer) successfully
\* handled events in processing order.
C22_SummaryMatchesRun ==
    run.pc = "done" =>
        /\ run.result.examined = Cardinality(Selected(run.store0, run.since))
        /\ run.result.examined = Len(run.loaded)
        /\ run.result.errors = Len(run.result.error_details)
        /\ Len(run.result.error_details) = Cardinality(FailedIds)
        /\ \A j \in FailedSoFar :
              \E k \in 1..Len(run.result.error_details) :
                  run.result.error_details[k] =
                      [event_id |-> run.loaded[j].id,
                       error |-> run.events[j].error]
        /\ Len(run.result.event_summary) <= 10
        /\ run.result.event_summary =
              Slice(SelectSeq(LoadedIds, NotFailed), 10)

\* C22 witness: a run has returned that handled more than 10 events
\* successfully and failed on others
C22_Witness ==
    /\ run.pc = "done"
    /\ Len(run.event_summary) > 10
    /\ Len(run.result.event_summary) = 10
    /\ run.result.errors >= 1

\* rows of the store, as the run found it, received before the run's since
BeforeSince ==
    {i \in 1..Len(run.store0) : run.store0[i].received_at < run.since}

Answered == hist.http.status # 0

\* the latest request lacked the configured secret
BadSecret ==
    /\ hist.http.secret \notin {NULL, ""}
    /\ hist.http.header = NULL \/ hist.http.header # hist.http.secret

\* the store holds the rows it held before the latest request
NoRowAppended ==
    Len(store) = hist.http.len0

\* the store holds one row more, a fresh one carrying payload
OneRowAppended(payload) ==
    /\ Len(store) = hist.http.len0 + 1
    /\ ~store[Len(store)].processed
    /\ store[Len(store)].retry_count = 0
    /\ store[Len(store)].error = NULL
    /\ store[Len(store)].payload = payload

\* the latest request's body as the row's payload: the parsed JSON, or
\* {"raw": <body text>} for a body that is not JSON
BodyAsPayload ==
    IF hist.http.request.json THEN hist.http.request.value
    ELSE [event |-> <<>>, entityType |-> <<>>, payload |-> EmptyPayload,
          raw |-> hist.http.request.text]

\* C30 as stated: with a secret configured, a request whose
\* X-Webhook-Secret is missing or different is rejected with 401 and
\* appends no row; an accepted request appends exactly one row with
\* processed = false, retry_count = 0, error null and the request body as
\* payload.
C30_AcceptedRequestAppendsOneRow ==
    Answered =>
        IF BadSecret
        THEN hist.http.status = 401 /\ NoRowAppended
        ELSE hist.http.status = 200 /\ OneRowAppended(BodyAsPayload)

----------------------------------------------------------------------------
(* Replay of one task's events over several runs.                          *)
\* every stored event is processed and no run is under way
AllProcessed ==
    /\ run.pc # "loop"
    /\ store # <<>>
    /\ \A i \in 1..Len(store) : store[i].processed

\* the stored event received last (received_at values differ here)
LatestReceived ==
    CHOOSE i \in 1..Len(store) :
        \A j \in 1..Len(store) : store[j].received_at <= store[i].received_at

\* the mirror's task row carries the title and column of event i's payload
TaskReflects(i) ==
    LET payload == store[i].payload.payload
    IN  /\ Has(db.tasks, payload.id)
        /\ db.tasks[payload.id].title = payload.title
        /\ db.tasks[payload.id].column_id = payload.columnId

\* C31: after any sequence of catch_up runs with mark_processed = true at
\* the end of which all events of one task are processed, the task's title
\* and column_id are those of the task's latest-received event, also when
\* an earlier event failed in one run and succeeded in a later one.
C31_TaskReflectsLatestEvent ==
    AllProcessed => TaskReflects(LatestReceived)

----------------------------------------------------------------------------
(* The status fields of an event over the calls made on it.                *)
\* processed_at is set exactly on the processed rows
ProcessedAtMatches ==
    \A i \in 1..Len(store) :
        store[i].processed <=> store[i].processed_at # NoTime

\* one step keeps processed rows processed, lowers no retry_count and
\* applies no event that is stored as processed
StatusStep ==
    \A i \in 1..Len(store) :
        /\ store[i].processed => store'[i].processed
        /\ store'[i].retry_count >= store[i].retry_count
        /\ store[i].processed => applied'[i] = applied[i]

\* C32: across any sequence of catch_up and process_single_event calls an
\* event's processed flag never goes from true to false, its retry_count
\* never decreases, processed_at is non-null exactly when processed is
\* true, and an event with processed = true is never applied to the local
\* DB again.
C32_StatusIsMonotonic ==
    []ProcessedAtMatches /\ [][StatusStep]_vars

\* an event applied and marked processed by one call, and a later catch_up
\* run that found it processed and has returned
C32_Witness ==
    /\ hist.calls = 2
    /\ run.pc = "done"
    /\ run.local
    /\ run.store0 # <<>>
    /\ run.store0[1].processed
    /\ applied[1] = 1

----------------------------------------------------------------------------
(* The counters a run returns.                                             *)
\* C33: at the end of every catch_up run with mark_processed = true,
\* examined = processed + errors and fk_resolved <= processed; with
\* mark_processed = false the reported processed count is 0 whatever the
\* number of events applied.
C33_CountersAddUp ==
    run.pc = "done" =>
        IF run.mark_processed
        THEN /\ run.result.examined = run.result.processed + run.result.errors
             /\ run.result.fk_resolved <= run.result.processed
        ELSE run.result.processed = 0

\* a run with mark_processed = true that returned after one event went
\* through the resolver and another failed
C33_Witness ==
    /\ run.pc = "done"
    /\ run.mark_processed
    /\ run.result.examined = 2
    /\ run.result.fk_resolved = 1
    /\ run.result.processed = 1
    /\ run.result.errors = 1

----------------------------------------------------------------------------
(* The task a comment refers to, as written and as resolved.               *)
\* the task id the comment upsert writes for the payload
TaskWritten(payload) ==
    upsert_comment_from_payload(payload, EmptyDb, Now).db.comments[payload.id].task_id

\* the latest pass of a run handled a comment event whose first upsert
\* failed on the task's foreign key
TaskMissingCase ==
    /\ BatchDispatched
    /\ run.last.kind = "comment"
    /\ LastLoaded.payload.payload.id # NULL
    /\ FirstError(LastLoaded, run.last.db).fk
    /\ FirstError(LastLoaded, run.last.db).msg =
          ForeignKeyViolation("comments", "task_id", {}).msg

\* C34: when a comment upsert fails on the task foreign key, the id
\* catch_up passes to the resolver is the task_id the comment upsert tried
\* to write, for every payload carrying any combination of chatId, taskId
\* and properties.taskId.
C34_ResolverGetsWrittenTaskId ==
    TaskMissingCase =>
        /\ run.last.resolver = 1
        /\ ResolverTarget.fk_field = "task"
        /\ ResolverTarget.missing_id = TaskWritten(LastLoaded.payload.payload)

----------------------------------------------------------------------------
(* Acknowledged requests.                                                  *)
\* C35: every webhook request that the receiver answers with a success
\* response has appended exactly one row to the event store: no event is
\* acknowledged to the sender and then lost.
C35_AcknowledgedIsStored ==
    (Answered /\ hist.http.status = 200) =>
        Len(store) = hist.http.len0 + 1

----------------------------------------------------------------------------
(* Rows appended while a run is in progress.                               *)
\* the rows appended since the selection of the run in progress or just
\* returned
AppendedSince == (Len(run.store0) + 1)..Len(store)

\* a step of a run in progress (a pass of the loop, the final commit, a
\* request arriving) leaves the rows appended since its selection as they
\* are
InRunRowsKept ==
    run.pc = "loop" =>
        /\ Len(store') >= Len(store)
        /\ \A i \in AppendedSince : store'[i] = store[i]

\* the step is the selection of the catch_up run that follows a run
FollowingSelection == run.pc = "done" /\ run'.pc = "loop"

SelectedBy(r, i) == \E j \in 1..Len(r.loaded) : r.loaded[j] = store[i]

\* C36 as stated: an event appended by the receiver while a catch_up run is
\* in progress (after the run's selection query) is not lost or altered by
\* that run: it stays processed = false with all fields unchanged through
\* the run's final commit and is selected by the next catch_up run.
C36_InRunEventKeptAndSelected ==
    [][/\ InRunRowsKept
       /\ FollowingSelection =>
             \A i \in AppendedSince : ~store[i].processed /\ SelectedBy(run', i)]_vars

\* C36 amended: ... and is selected by the next catch_up run whose since
\* bound admits it.
C36_InRunEventKeptAndSelectedIfAdmitted ==
    [][/\ InRunRowsKept
       /\ FollowingSelection =>
             \A i \in AppendedSince :
                /\ ~store[i].processed
                /\ (run'.since = NoTime \/ store[i].received_at >= run'.since)
                      => SelectedBy(run', i)]_vars

\* the latest request arrived during the first run, which went on to handle
\* an event and to commit; the second run has selected the row it appended
C36_Witness ==
    /\ hist.http.during = 1
    /\ hist.http.status = 200
    /\ hist.http.persists
    /\ Len(store) = hist.http.len0 + 1
    /\ hist.calls = 2
    /\ run.pc = "loop"
    /\ hist.prev.done
    /\ store[1].processed
    /\ \E j \in 1..Len(run.loaded) : run.loaded[j].id = Len(store)

----------------------------------------------------------------------------
(* process_single_event on a row that is processed, or is not there.       *)
\* the step is a process_single_event call
SingleCall == hist'.calls = hist.calls + 1 /\ run'.pc = "single"

\* the call of this step is made on a row stored as processed
OnProcessedRow ==
    /\ run'.single.event_id \in 1..Len(store)
    /\ store[run'.single.event_id].processed

\* the call of this step is made with an id no row has
OnMissingRow == run'.single.event_id \notin 1..Len(store)

\* C37: process_single_event called on an event that is already
\* processed = true returns True without performing any upsert or changing
\* any event field, and called with a non-existent event id returns False
\* and changes nothing.
C37_SingleEventNoOpCases ==
    [][SingleCall =>
        /\ OnProcessedRow =>
                /\ run'.single.ret
                /\ ~run'.single.dispatched
                /\ UNCHANGED <<store, db, applied>>
        /\ OnMissingRow =>
                /\ ~run'.single.ret
                /\ ~run'.single.dispatched
                /\ UNCHANGED <<store, db, applied>>]_vars

\* process_single_event has returned True for an event that an earlier
\* call had applied and marked processed
C37_Witness ==
    /\ run.pc = "single"
    /\ hist.calls = 2
    /\ run.single.event_id = 1
    /\ run.store0 # <<>>
    /\ run.store0[1].processed
    /\ ~run.single.entered
    /\ run.single.ret
    /\ applied[1] = 1

----------------------------------------------------------------------------
(* Two invocations at once.                                                *)
\* a second invocation has started while the first was in its loop
Overlapping == run.other.pc # "idle"

LoadedBy(r) == {r.loaded[j].id : j \in 1..Len(r.loaded)}

\* the row was unprocessed and within the since bound at r's selection
SelectableBy(r, e) ==
    /\ e \in 1..Len(r.store0)
    /\ ~r.store0[e].processed
    /\ (r.since = NoTime \/ r.store0[e].received_at >= r.since)

\* invocation r has committed the upsert of event e
AppliedBy(r, e) ==
    /\ r.local
    /\ \E j \in 1..Len(r.event_summary) : r.event_summary[j] = e
    /\ Truthy(store[e].payload.payload)
    /\ Handler(entity_prefix(EventType(store[e]), EntityType(store[e]))) # "none"

Count(b) == IF b THEN 1 ELSE 0

\* C38: nothing enforces mutual exclusion between catch_up invocations:
\* with two runs interleaved on the same event store, an event that is
\* unprocessed when both runs execute their selection query is selected by
\* both, and each run that gets its upsert through applies it to the local
\* DB, whatever the other run did (double-processing is reachable: see the
\* witness).
C38_BothRunsApplySharedEvent ==
    Overlapping =>
        \A e \in 1..Len(store) :
            /\ (SelectableBy(run, e) /\ SelectableBy(run.other, e))
                    => e \in LoadedBy(run) \cap LoadedBy(run.other)
            /\ applied[e] = Count(AppliedBy(run, e))
                             + Count(AppliedBy(run.other, e))

\* both invocations have returned, each having selected event 1 while it
\* was unprocessed and each having applied it to the local DB
C38_Witness ==
    /\ Overlapping
    /\ run.pc = "done"
    /\ run.other.pc = "done"
    /\ SelectableBy(run, 1) /\ SelectableBy(run.other, 1)
    /\ AppliedBy(run, 1) /\ AppliedBy(run.other, 1)
    /\ applied[1] = 2
    /\ store[1].processed

----------------------------------------------------------------------------
(* The resolver's calls of the source API.                                 *)
\* the chain the recursion follows
Chain == <<"task", "column", "board", "project">>

ChainKinds == {Chain[j] : j \in 1..Len(Chain)}

ResolverKinds == ChainKinds \cup {"user", "sticker"}

\* the resolver was called
ResolverCalled == up.kind # "none" /\ up.n > 0

\* seq is a stretch of the chain that begins at kind
AlongChainFrom(kind, seq) ==
    \E j \in 1..Len(Chain) :
        /\ Chain[j] = kind
        /\ Len(seq) <= Len(Chain) - j + 1
        /\ \A k \in 1..Len(seq) : seq[k] = Chain[j + k - 1]

\* C39: _fetch_and_create_missing_entity always returns a boolean: its
\* recursion follows only the fixed chain task -> column -> board ->
\* project, so one call issues at most one single-entity fetch per kind on
\* that chain, and an unknown kind returns False with no fetch and no
\* write.
C39_ResolverFollowsChainOnce ==
    ResolverCalled =>
        /\ up.ok \in BOOLEAN
        /\ up.kind \in ChainKinds =>
                /\ AlongChainFrom(up.kind, up.fetched)
                /\ \A kind \in ChainKinds :
                      Cardinality({k \in 1..Len(up.fetched) :
                                      up.fetched[k] = kind}) <= 1
        /\ up.kind \notin ResolverKinds =>
                /\ ~up.ok
                /\ up.fetched = <<>>
                /\ db = up.before

\* a call for a task that went down the whole chain and returned True
C39_Witness ==
    /\ ResolverCalled
    /\ up.kind = "task"
    /\ up.ok
    /\ up.fetched = Chain
    /\ up.before = EmptyDb
    /\ Has(db.tasks, "t1") /\ Has(db.projects, "p1")

----------------------------------------------------------------------------
(* The client's attempts.                                                  *)
ClientCalled == up.call.pc # "idle"

ClientDone == up.call.pc \in {"returned", "raised"}

\* the outcomes after which another attempt was made
Retried ==
    IF ClientDone /\ up.call.outcomes # <<>>
    THEN SubSeq(up.call.outcomes, 1, Len(up.call.outcomes) - 1)
    ELSE up.call.outcomes

\* the outcome is an error status other than 429
OtherErrorStatus(outcome) ==
    /\ outcome.kind = "status"
    /\ outcome.status # 429
    /\ ~(200 <= outcome.status /\ outcome.status < 300)

\* C40: YouGileClient.request makes at most max_retries + 1 HTTP attempts
\* per call: it retries only after HTTP 429, a timeout or a network error
\* (sleeping before each retry), raises an error after the last attempt
\* instead of looping, and raises immediately without retry on any other
\* error status.
C40_RequestAttemptsAreBounded ==
    ClientCalled =>
        /\ up.call.attempts <= up.call.max_retries + 1
        /\ up.call.attempts = Len(up.call.outcomes)
        /\ \A k \in 1..Len(Retried) :
                \/ Retried[k].kind \in {"timeout", "network"}
                \/ Retried[k].kind = "status" /\ Retried[k].status = 429
        /\ Len(up.call.sleeps) = Len(Retried)
        /\ \A k \in 1..Len(up.call.sleeps) : up.call.sleeps[k] > 0
        /\ up.call.attempts = up.call.max_retries + 1 => ClientDone
        /\ \A k \in 1..Len(up.call.outcomes) :
                OtherErrorStatus(up.call.outcomes[k]) =>
                    /\ k = Len(up.call.outcomes)
                    /\ up.call.pc = "raised"
        /\ up.call.pc = "returned" =>
                ~handle_response(up.call.outcomes[up.call.attempts].status).raised

\* a call that used every attempt: 429, then a timeout, then a network
\* error on the last attempt, after which it raised
C40_Witness ==
    /\ up.call.pc = "raised"
    /\ up.call.max_retries = MaxRetries
    /\ up.call.attempts = MaxRetries + 1
    /\ up.call.outcomes[1].kind = "status" /\ up.call.outcomes[1].status = 429
    /\ up.call.outcomes[up.call.attempts].kind = "network"
    /\ Len(up.call.sleeps) = MaxRetries
    /\ up.call.error = "YouGileError"

====
